---------------------------- MODULE Spec2Model ----------------------------
(***************************************************************************)
(* Model of the token / cache refresh core of msgraph-webui-daemon:        *)
(*   - CacheManager (the persisted store: tokens, profiles, events,        *)
(*     timestamps),                                                        *)
(*   - AuthController.getValidAccessToken / refreshToken,                  *)
(*   - MSGraphWebUIServer (index.ts): the background refresh timer, the    *)
(*     manual refresh route, tokens.json and data_cache.json,              *)
(*   - the background cycle over all users of the profile table,           *)
(*   - the CacheManager objects the components of the process use,         *)
(*   - the data directory of the CacheManager with writes that may fail,   *)
(*     and restarts over it,                                               *)
(*   - sign-in (handleCallback), refresh and logout of one account.        *)
(* Each part has a specification of its own over the same variables.       *)
(* JavaScript values are modelled as follows:                              *)
(*   - an optional value (undefined or v) is None or Some(v);              *)
(*   - a Map is a function whose DOMAIN is the set of keys;                *)
(*   - Date.now() is the variable now (milliseconds);                      *)
(*   - an async function suspended at an await is an entry of calls.       *)
(***************************************************************************)
EXTENDS Integers, Sequences, FiniteSets, TLC

VARIABLES
    now,              \* Date.now()
    ticks,            \* number of clock advances so far (bounds the run)
    env,              \* process environment, fixed at start-up
    tokenData,        \* CacheManager.tokenData       : Map<userId, TokenData>
    userProfiles,     \* CacheManager.userProfiles    : Map<userId, UserProfile>
    cachedEvents,     \* CacheManager.cachedEvents    : Map<userId, CalendarEvent[]>
    cacheTimestamps,  \* CacheManager.cacheTimestamps : Map<userId, number>
    disk,             \* data/tokens.json, data/users.json, data/events.json
    saveErrors,       \* saveToDisk calls whose catch logged 'Error saving
                      \* cache to disk' so far
    calls,            \* getValidAccessToken invocations awaiting the fetch
                      \* they sent to the identity provider
    last,             \* the operation that produced the current state
    tokenFile,        \* MSGraphWebUIServer: ./tokens.json
    cacheFile,        \* MSGraphWebUIServer: ./data_cache.json
    nextUpdateTime,   \* MSGraphWebUIServer.nextUpdateTime
    timer,            \* the pending setTimeout of startBackgroundRefresh:
                      \* its delay, the time it is due, which callback
    runs,             \* refreshCalendarData invocations awaiting a call
    cycles,           \* background refreshes started so far (bounds the run)
    stores,           \* the CacheManager objects constructed in the process
    cycle,            \* the background cycle over all users: one slot per
                      \* user
    browser           \* the page served to the browser: its CalendarApp
                      \* object, its localStorage, its fetches in flight

serverVars == <<tokenFile, cacheFile, nextUpdateTime, timer, runs, cycles>>

vars == <<now, ticks, env, tokenData, userProfiles, cachedEvents,
          cacheTimestamps, disk, saveErrors, calls, last, serverVars, stores,
          cycle, browser>>

storeVars == <<tokenData, userProfiles, cachedEvents, cacheTimestamps, disk,
               saveErrors>>

----------------------------------------------------------------------------
(* Bounds of the model *)

MaxTicks == 2

MaxEvents == 1

\* background refreshes one run may start
MaxCycles == 2

\* Math.random() yields k / RandomSteps for some k in 0 .. RandomSteps - 1
RandomSteps == 2

\* saveToDisk calls of one run in which a writeFileSync may throw
MaxSaveErrors == 1

(* Program constants *)

MsPerSecond == 1000

DefaultMaxAgeMs == 300000

\* index.ts, getRandomDelay
BaseDelaySec == 60

VariationSec == 20

HalfVariationSec == 10

\* index.ts, startBackgroundRefresh: the delay of the first setTimeout
FirstDelayMs == 5000

\* index.ts, getValidAccessToken: bufferTime
BufferTimeMs == 300000

Users == {"u1", "u2"}

CallIds == {"c1", "c2"}

----------------------------------------------------------------------------
(* JavaScript optional values and truthiness *)

None == <<>>

Some(v) == <<v>>

\* !x is false exactly for a present, non-zero number
TruthyNum(o) == o # None /\ o[1] # 0

\* !x is false exactly for a present, non-empty string
TruthyStr(o) == o # None /\ o[1] # ""

\* a || b on optional strings
OrElse(a, b) == IF TruthyStr(a) THEN a ELSE b

\* Map.set(k, v)
MapSet(m, k, v) == [x \in (DOMAIN m) \cup {k} |-> IF x = k THEN v ELSE m[x]]

\* Map.delete(k)
MapDelete(m, k) == [x \in (DOMAIN m) \ {k} |-> m[x]]

\* Map.get(k)
MapGet(m, k) == IF k \in DOMAIN m THEN Some(m[k]) ELSE None

EmptyMap == [x \in {} |-> x]

----------------------------------------------------------------------------
(* Inputs *)

\* TokenData records handed to storeTokenData by a caller
TokenRecords ==
    [accessToken  : {"A1"},
     refreshToken : {None, Some("R1")},
     expiresAt    : {None, Some(0), Some(MsPerSecond), Some(2 * MsPerSecond)},
     tokenType    : {Some("Bearer")}]

\* the token records a sign-in leaves behind: one without an expiry time,
\* one to be refreshed
SignInTokenRecords ==
    {[accessToken |-> "A1", refreshToken |-> Some("R1"), expiresAt |-> e,
      tokenType |-> Some("Bearer")] :
        e \in {None, Some(MsPerSecond), Some(2 * MsPerSecond)}}

\* what the await of fetch(...) / response.json() in refreshToken can yield
NoResponse ==
    [status |-> "none", access_token |-> None, refresh_token |-> None,
     expires_in |-> None, token_type |-> None]

FailedResponses ==
    {[NoResponse EXCEPT !.status = s] : s \in {"throw", "non2xx", "badjson"}}

OkResponses ==
    [status        : {"ok"},
     access_token  : {None, Some("A2")},
     refresh_token : {None, Some("R2")},
     expires_in    : {None, Some(0), Some(1)},
     token_type    : {None, Some("Bearer")}]

Responses == FailedResponses \cup OkResponses

EventIds == {"e1", "e2"}

EventLists == UNION {[1..n -> EventIds] : n \in 0..MaxEvents}

Idle == [pc |-> "idle", userId |-> "", tokenData |-> None]

\* refreshCalendarData invocations: two started by the background timer
\* chain, one started by POST /api/refresh
BackgroundRuns == {"bg1", "bg2"}

RunIds == BackgroundRuns \cup {"manual"}

\* tokenCalls / eventCalls: the acquireTokenSilent calls and the event
\* requests the invocation has sent so far
IdleRun == [pc |-> "idle", tokenCalls |-> 0, eventCalls |-> 0]

\* a fetch slot of the page with no request in flight
NoRequest == [kind |-> "none", userId |-> ""]

RequestSlots == {"r1", "r2"}

\* no page is open in a browser
NoBrowser ==
    [app |-> [currentUserId |-> None, users |-> <<>>, events |-> <<>>,
              refreshCountdown |-> None, isOnline |-> FALSE],
     localStorage |-> [currentUserId |-> None, users |-> None,
                       events |-> [u \in Users |-> None]],
     pending |-> [r \in RequestSlots |-> NoRequest]]

Op(op, userId, arg, ret, resp) ==
    [op |-> op, userId |-> userId, arg |-> arg, ret |-> ret, resp |-> resp]

----------------------------------------------------------------------------
(* CacheManager: persistence *)

\* JSON.stringify of one TokenData: a property whose value is undefined is
\* left out of the text
stringifyTokenData(td) ==
    [f \in {"accessToken"} \cup
            {g \in {"refreshToken", "expiresAt", "tokenType"} : td[g] # None}
       |-> td[f]]

parseTokenData_NoExpiry(j) ==
    [accessToken  |-> j["accessToken"],
     refreshToken |-> IF "refreshToken" \in DOMAIN j THEN j["refreshToken"]
                      ELSE None,
     expiresAt    |-> None,
     tokenType    |-> IF "tokenType" \in DOMAIN j THEN j["tokenType"]
                      ELSE None]

\* one TokenData of a parsed file: a property the text does not have reads
\* as undefined
parseTokenData(j) ==
    [accessToken  |-> j["accessToken"],
     refreshToken |-> IF "refreshToken" \in DOMAIN j THEN j["refreshToken"]
                      ELSE None,
     expiresAt    |-> IF "expiresAt" \in DOMAIN j THEN j["expiresAt"]
                      ELSE None,
     tokenType    |-> IF "tokenType" \in DOMAIN j THEN j["tokenType"]
                      ELSE None]

\* JSON.stringify(Object.fromEntries(this.tokenData))
stringifyTokens(t) == [u \in DOMAIN t |-> stringifyTokenData(t[u])]

\* new Map(Object.entries(JSON.parse(text))) of tokens.json
parseTokens(j) == [u \in DOMAIN j |-> parseTokenData(j[u])]

saveToDisk_SkipsEvents(d, t, p, e, ts, w) ==
    [tokens |-> IF w >= 1 THEN Some(stringifyTokens(t)) ELSE d.tokens,
     users  |-> IF w >= 2 THEN Some(p) ELSE d.users,
     events |-> d.events]

\* saveToDisk with the first w of its three writeFileSync calls succeeding;
\* the catch swallows the error of the first failing one
saveToDisk(d, t, p, e, ts, w) ==
    [tokens |-> IF w >= 1 THEN Some(stringifyTokens(t)) ELSE d.tokens,
     users  |-> IF w >= 2 THEN Some(p) ELSE d.users,
     events |-> IF w >= 3 THEN Some([events |-> e, timestamps |-> ts])
                ELSE d.events]

\* how many writes of one saveToDisk call the file system lets through
WriteOutcomes ==
    IF env.faultyDisk /\ saveErrors < MaxSaveErrors THEN 0..3 ELSE {3}

\* one saveToDisk call of a store whose tables are t, p, e, ts: the files
\* after it, and the line its catch logs when a write threw
Persist(t, p, e, ts) ==
    \E w \in WriteOutcomes :
        /\ disk' = saveToDisk(disk, t, p, e, ts, w)
        /\ saveErrors' = IF w < 3 THEN saveErrors + 1 ELSE saveErrors

Commit_UndoneOnError(t, p, e, ts) ==
    /\ Persist(t, p, e, ts)
    /\ IF saveErrors' = saveErrors
       THEN /\ tokenData' = t
            /\ userProfiles' = p
            /\ cachedEvents' = e
            /\ cacheTimestamps' = ts
       ELSE UNCHANGED <<tokenData, userProfiles, cachedEvents,
                        cacheTimestamps>>

\* a mutating store call: new in-memory tables, then saveToDisk
Commit(t, p, e, ts) ==
    /\ tokenData' = t
    /\ userProfiles' = p
    /\ cachedEvents' = e
    /\ cacheTimestamps' = ts
    /\ Persist(t, p, e, ts)

----------------------------------------------------------------------------
(* CacheManager: token queries *)

getTokenData(userId) == MapGet(tokenData, userId)

getAccessToken(userId) ==
    IF userId \in DOMAIN tokenData
    THEN Some(tokenData[userId].accessToken)
    ELSE None

isTokenExpired_AbsentIsExpired(userId) ==
    IF userId \notin DOMAIN tokenData THEN FALSE
    ELSE IF ~TruthyNum(tokenData[userId].expiresAt) THEN TRUE
    ELSE now >= tokenData[userId].expiresAt[1]

isTokenExpired(userId) ==
    IF userId \notin DOMAIN tokenData THEN FALSE
    ELSE IF ~TruthyNum(tokenData[userId].expiresAt) THEN FALSE
    ELSE now >= tokenData[userId].expiresAt[1]

----------------------------------------------------------------------------
(* Initial state: a process started with an empty data directory.          *)
(* env.clientId  : AZURE_CLIENT_ID is set                                  *)
(* env.faultyDisk: writeFileSync may throw                                 *)
(* env.slots     : the getValidAccessToken invocations that may be pending *)

Init ==
    /\ now = MsPerSecond
    /\ ticks = 0
    /\ browser = NoBrowser
    /\ env \in [faultyDisk : {FALSE}, clientId : BOOLEAN, slots : {{"c1"}}]
    /\ tokenData = EmptyMap
    /\ userProfiles = EmptyMap
    /\ cachedEvents = EmptyMap
    /\ cacheTimestamps = EmptyMap
    /\ disk = [tokens |-> None, users |-> None, events |-> None]
    /\ saveErrors = 0
    /\ calls = [c \in CallIds |-> Idle]
    /\ last = Op("init", "", None, None, NoResponse)
    /\ tokenFile = None
    /\ cacheFile = None
    /\ nextUpdateTime = now
    /\ timer = IF env.clientId
               THEN Some([due |-> now + FirstDelayMs, delay |-> FirstDelayMs,
                          first |-> TRUE])
               ELSE None
    /\ runs = [i \in RunIds |-> IdleRun]
    /\ cycles = 0
    /\ stores = EmptyMap
    /\ cycle = [pc |-> "idle", task |-> EmptyMap]

\* one second passes
Tick ==
    /\ ticks < MaxTicks
    /\ now' = now + MsPerSecond
    /\ ticks' = ticks + 1
    /\ last' = Op("tick", "", None, None, NoResponse)
    /\ UNCHANGED <<env, browser, storeVars, calls, serverVars, stores, cycle>>

storeTokenData_SingleEntry(userId, td) ==
    Commit([x \in {userId} |-> td], userProfiles, cachedEvents,
           cacheTimestamps)

storeTokenData_DropsOthers(userId, td) ==
    Commit([x \in {userId} |-> td], userProfiles, cachedEvents,
           cacheTimestamps)

\* CacheManager.storeTokenData(userId, tokenData)
storeTokenData(userId, td) ==
    Commit(MapSet(tokenData, userId, td), userProfiles, cachedEvents,
           cacheTimestamps)

clearUserData_KeepsStamp(userId) ==
    Commit(MapDelete(tokenData, userId), MapDelete(userProfiles, userId),
           MapDelete(cachedEvents, userId), cacheTimestamps)

clearUserData_KeepsProfile(userId) ==
    Commit(MapDelete(tokenData, userId), userProfiles,
           MapDelete(cachedEvents, userId), MapDelete(cacheTimestamps, userId))

\* CacheManager.clearUserData(userId)
clearUserData(userId) ==
    Commit(MapDelete(tokenData, userId), MapDelete(userProfiles, userId),
           MapDelete(cachedEvents, userId), MapDelete(cacheTimestamps, userId))

\* CacheManager.storeAccessToken(userId, accessToken): {} stands in for a
\* missing record, and the spread keeps every other field of the old one
storeAccessToken(userId, accessToken) ==
    LET existing == IF userId \in DOMAIN tokenData THEN tokenData[userId]
                    ELSE [accessToken |-> accessToken, refreshToken |-> None,
                          expiresAt |-> None, tokenType |-> None]
    IN  Commit(MapSet(tokenData, userId,
                      [existing EXCEPT !.accessToken = accessToken]),
               userProfiles, cachedEvents, cacheTimestamps)

removeAccessToken_WithEvents(userId) ==
    Commit(MapDelete(tokenData, userId), userProfiles,
           MapDelete(cachedEvents, userId), MapDelete(cacheTimestamps, userId))

\* CacheManager.removeAccessToken(userId)
removeAccessToken(userId) ==
    Commit(MapDelete(tokenData, userId), userProfiles, cachedEvents,
           cacheTimestamps)

\* a caller of the store puts one of the given token records
\* (TokenStore.put)
StoreTokenDataOf(records) ==
    \E userId \in Users, td \in records :
        /\ storeTokenData(userId, td)
        /\ last' = Op("storeTokenData", userId, Some(td), None, NoResponse)
        /\ UNCHANGED <<now, ticks, env, browser, calls, serverVars, stores, cycle>>

StoreTokenData == StoreTokenDataOf(TokenRecords)

\* handleCallback of the earlier AuthController stores the access token it
\* received; arg is the record the call names: an access token and no
\* other field
StoreAccessToken ==
    \E userId \in Users, accessToken \in {"A3"} :
        /\ storeAccessToken(userId, accessToken)
        /\ last' = Op("storeAccessToken", userId,
                      Some([accessToken |-> accessToken,
                            refreshToken |-> None, expiresAt |-> None,
                            tokenType |-> None]),
                      None, NoResponse)
        /\ UNCHANGED <<now, ticks, env, browser, calls, serverVars, stores, cycle>>

\* a caller of the store removes a token record (TokenStore.delete)
RemoveAccessToken ==
    \E userId \in Users :
        /\ removeAccessToken(userId)
        /\ last' = Op("removeAccessToken", userId, None, None, NoResponse)
        /\ UNCHANGED <<now, ticks, env, browser, calls, serverVars, stores, cycle>>

\* the display names the profile endpoint may report for an account; the
\* email of a profile is fetched and stored the way its name is
Names == {"n1", "n2"}

\* the profiles handleCallback may build for userId from the given names
ProfilesOf(userId, names) == {[id |-> userId, name |-> n] : n \in names}

\* CacheManager.storeUserProfile(userId, profile)
storeUserProfile(userId, profile) ==
    Commit(tokenData, MapSet(userProfiles, userId, profile), cachedEvents,
           cacheTimestamps)

\* CacheManager.getUserProfile(userId)
getUserProfile(userId) == MapGet(userProfiles, userId)

\* a caller of the store puts a profile with one of the given names
\* (ProfileStore.put)
StoreUserProfileOf(names) ==
    \E userId \in Users : \E profile \in ProfilesOf(userId, names) :
        /\ storeUserProfile(userId, profile)
        /\ last' = Op("storeUserProfile", userId, Some(profile), None,
                      NoResponse)
        /\ UNCHANGED <<now, ticks, env, browser, calls, serverVars, stores, cycle>>

\* logout of one user
ClearUserData ==
    \E userId \in Users :
        /\ clearUserData(userId)
        /\ last' = Op("clearUserData", userId, None, None, NoResponse)
        /\ UNCHANGED <<now, ticks, env, browser, calls, serverVars, stores, cycle>>

----------------------------------------------------------------------------
(* AuthController.getValidAccessToken / refreshToken *)

\* refreshToken, line 209: the early return when no refresh token is stored
hasRefreshToken(td) == td # None /\ TruthyStr(td[1].refreshToken)

\* refreshToken, lines 233-247: the response carries a usable access token
refreshSucceeds(resp) == resp.status = "ok" /\ TruthyStr(resp.access_token)

newExpiresAt_Missing(expiresIn) == None

\* refreshToken, line 250
newExpiresAt(expiresIn) ==
    IF TruthyNum(expiresIn) THEN Some(now + expiresIn[1] * MsPerSecond)
    ELSE None

newRefreshToken_NoCarryOver(td, resp) == resp.refresh_token

\* refreshToken, line 241
newRefreshToken(td, resp) == OrElse(resp.refresh_token, td.refreshToken)

\* refreshToken, lines 253-258: the record handed to storeTokenData
refreshedTokenData(td, resp) ==
    [accessToken  |-> resp.access_token[1],
     refreshToken |-> newRefreshToken(td, resp),
     expiresAt    |-> newExpiresAt(resp.expires_in),
     tokenType    |-> OrElse(resp.token_type, Some("Bearer"))]

failedRefreshTokens_Drop(userId) == MapDelete(tokenData, userId)

\* refreshToken, lines 233-237, 244-247, 262-265: the token table after a
\* failed exchange
failedRefreshTokens(userId) == tokenData

getAccessTokenOrNull_AnyUser(userId) ==
    IF userId \in DOMAIN tokenData THEN Some(tokenData[userId].accessToken)
    ELSE IF DOMAIN tokenData # {}
    THEN Some(tokenData[CHOOSE u \in DOMAIN tokenData : TRUE].accessToken)
    ELSE None

\* getValidAccessToken, line 275
getAccessTokenOrNull(userId) == OrElse(getAccessToken(userId), None)

\* getValidAccessToken reaches the fetch of refreshToken (line 220)
needsFetch(userId) ==
    /\ isTokenExpired(userId)
    /\ hasRefreshToken(getTokenData(userId))
    /\ env.clientId

\* getValidAccessToken(userId) up to its return or its first await
GetValidAccessToken ==
    \E c \in env.slots, userId \in Users :
        /\ calls[c].pc = "idle"
        /\ IF needsFetch(userId)
           THEN /\ calls' = [calls EXCEPT ![c] =
                        [pc |-> "awaitFetch", userId |-> userId,
                         tokenData |-> getTokenData(userId)]]
                /\ last' = Op("fetch", userId, getTokenData(userId), None,
                              NoResponse)
           ELSE /\ last' = Op("getValidAccessToken", userId, None,
                              IF isTokenExpired(userId) THEN None
                              ELSE getAccessTokenOrNull(userId),
                              NoResponse)
                /\ UNCHANGED calls
        /\ UNCHANGED <<now, ticks, env, browser, storeVars, serverVars, stores, cycle>>

\* the fetch of refreshToken settles and refreshToken runs to its return
RefreshTokenResume ==
    \E c \in env.slots, resp \in Responses :
        /\ calls[c].pc = "awaitFetch"
        /\ LET userId == calls[c].userId
               td == calls[c].tokenData[1]
           IN  /\ IF refreshSucceeds(resp)
                  THEN storeTokenData(userId, refreshedTokenData(td, resp))
                  ELSE /\ tokenData' = failedRefreshTokens(userId)
                       /\ UNCHANGED <<userProfiles, cachedEvents,
                                      cacheTimestamps, disk, saveErrors>>
               /\ last' = Op("refreshToken", userId, calls[c].tokenData,
                             IF refreshSucceeds(resp) THEN resp.access_token
                             ELSE None,
                             resp)
        /\ calls' = [calls EXCEPT ![c] = Idle]
        /\ UNCHANGED <<now, ticks, env, browser, serverVars, stores, cycle>>

----------------------------------------------------------------------------
(* CacheManager: the event cache *)

getCachedEvents(userId) == MapGet(cachedEvents, userId)

getCacheTimestamp(userId) == MapGet(cacheTimestamps, userId)

isCacheValid_Inclusive(userId, maxAgeMs) ==
    LET timestamp == MapGet(cacheTimestamps, userId)
    IN  IF ~TruthyNum(timestamp) THEN FALSE
        ELSE (now - timestamp[1]) <= maxAgeMs

\* CacheManager.isCacheValid(userId, maxAgeMs)
isCacheValid(userId, maxAgeMs) ==
    LET timestamp == MapGet(cacheTimestamps, userId)
    IN  IF ~TruthyNum(timestamp) THEN FALSE
        ELSE (now - timestamp[1]) < maxAgeMs

\* CacheManager.isCacheValid(userId), maxAgeMs left to its default
isCacheValidDefault(userId) == isCacheValid(userId, DefaultMaxAgeMs)

cacheEvents_Merge(userId, events) ==
    Commit(tokenData, userProfiles,
           MapSet(cachedEvents, userId,
                  IF userId \in DOMAIN cachedEvents
                  THEN cachedEvents[userId] \o events ELSE events),
           MapSet(cacheTimestamps, userId, now))

cacheEvents_KeepFirstStamp(userId, events) ==
    Commit(tokenData, userProfiles,
           MapSet(cachedEvents, userId, events),
           IF userId \in DOMAIN cacheTimestamps THEN cacheTimestamps
           ELSE MapSet(cacheTimestamps, userId, now))

\* CacheManager.cacheEvents(userId, events)
cacheEvents(userId, events) ==
    Commit(tokenData, userProfiles,
           MapSet(cachedEvents, userId, events),
           MapSet(cacheTimestamps, userId, now))

\* CacheManager.clearAllData()
clearAllData == Commit(EmptyMap, EmptyMap, EmptyMap, EmptyMap)

\* a successful fetch hands its event list, one of the given ones, to the
\* cache (EventCache.put)
CacheEventsOf(lists) ==
    \E userId \in Users, events \in lists :
        /\ cacheEvents(userId, events)
        /\ last' = Op("cacheEvents", userId, Some(events), None, NoResponse)
        /\ UNCHANGED <<now, ticks, env, browser, calls, serverVars, stores, cycle>>

CacheEvents == CacheEventsOf(EventLists)

ClearAllData ==
    /\ clearAllData
    /\ last' = Op("clearAllData", "", None, None, NoResponse)
    /\ UNCHANGED <<now, ticks, env, browser, calls, serverVars, stores, cycle>>

\* the default cache lifetime passes
LongTick ==
    /\ ticks < MaxTicks
    /\ now' = now + DefaultMaxAgeMs
    /\ ticks' = ticks + 1
    /\ last' = Op("tick", "", None, None, NoResponse)
    /\ UNCHANGED <<env, browser, storeVars, calls, serverVars, stores, cycle>>

----------------------------------------------------------------------------
(* MSGraphWebUIServer (index.ts): tokens.json, data_cache.json, the        *)
(* background refresh and the manual refresh route                         *)

\* what acquireTokenByCode / acquireTokenSilent hand to saveTokens: a
\* token that is inside the five minute buffer from the start, or one that
\* enters it two nominal periods later
TokenResponses ==
    [accessToken  : {"T1"},
     refreshToken : {None, Some("RT")},
     expiresOn    : {Some(BufferTimeMs),
                     Some(BufferTimeMs + 2 * BaseDelaySec * MsPerSecond)},
     account      : {Some("acct")}]

\* what the await of graphClient.api(...).get() can yield: a body whose
\* value is missing or a list, or an exception
EventResponses ==
    {[ok |-> TRUE, value |-> None],
     [ok |-> TRUE, value |-> Some(<<"e1">>)],
     [ok |-> FALSE, value |-> None]}

\* saveTokens: the content of tokens.json after the write
saveTokens(tokenResponse) ==
    Some([accessToken  |-> tokenResponse.accessToken,
          refreshToken |-> tokenResponse.refreshToken,
          expiresOn    |-> tokenResponse.expiresOn,
          account      |-> tokenResponse.account])

\* getStoredTokens: null when tokens.json does not exist
getStoredTokens == tokenFile

tokenStillValid_NoBuffer(st, t) ==
    st.expiresOn # None /\ st.expiresOn[1] - t > 0

\* getValidAccessToken, line 220, at time t
tokenStillValid(st, t) ==
    st.expiresOn # None /\ st.expiresOn[1] - t > BufferTimeMs

\* getValidAccessToken, line 225; this.pca is null when the server is not
\* configured, and the call on it throws into the catch of line 236
canRefresh(st) ==
    TruthyStr(st.refreshToken) /\ TruthyStr(st.account) /\ env.clientId

getRandomDelay_PlusHalf(k) ==
    (((BaseDelaySec + HalfVariationSec) * RandomSteps + k * VariationSec)
        * MsPerSecond) \div RandomSteps

\* getRandomDelay with Math.random() = k / RandomSteps
getRandomDelay(k) ==
    (((BaseDelaySec - HalfVariationSec) * RandomSteps + k * VariationSec)
        * MsPerSecond) \div RandomSteps

\* the values Math.random() can take
RandomDraws == 0 .. (RandomSteps - 1)

\* scheduleNext, lines 310-316, called at time t
scheduleNext(t, k) ==
    /\ nextUpdateTime' = t + getRandomDelay(k)
    /\ timer' = Some([due |-> t + getRandomDelay(k),
                      delay |-> getRandomDelay(k), first |-> FALSE])

\* getCachedData over the content cf of data_cache.json; lastUpdated None
\* stands for the string 'Never'
getCachedData(cf, nut) ==
    IF cf = None
    THEN [calendarEvents |-> <<>>, lastUpdated |-> None, nextUpdate |-> nut]
    ELSE cf[1]

\* refreshCalendarData, lines 268-274: the content written to
\* data_cache.json
cacheData(events) ==
    Some([calendarEvents |-> IF events.value = None THEN <<>>
                             ELSE events.value[1],
          lastUpdated    |-> Some(now),
          nextUpdate     |-> nextUpdateTime])

\* refreshCalendarData from its call to its first await or its return
startRun(t) ==
    LET st == getStoredTokens
    IN  IF st = None THEN IdleRun
        ELSE IF tokenStillValid(st[1], t)
        THEN [pc |-> "awaitEvents", tokenCalls |-> 0, eventCalls |-> 1]
        ELSE IF canRefresh(st[1])
        THEN [pc |-> "awaitToken", tokenCalls |-> 1, eventCalls |-> 0]
        ELSE IdleRun

tokenFailed_Retry(run) ==
    IF run.tokenCalls < 2 THEN [run EXCEPT !.tokenCalls = @ + 1] ELSE IdleRun

\* getValidAccessToken, lines 236-239, then refreshCalendarData, lines
\* 248-251: the invocation returns
tokenFailed(run) == IdleRun

eventsFailed_Rethrow(run) == [run EXCEPT !.pc = "rejected"]

\* refreshCalendarData, lines 276-278: the invocation returns
eventsFailed(run) == IdleRun

refreshSettled_NoAwait(run) == TRUE

\* line 314: the await of refreshCalendarData has completed
refreshSettled(run) == run.pc = "idle"

\* what follows the call of refreshCalendarData in its caller: the timer
\* callback (lines 314-315) calls scheduleNext once the refresh has
\* settled, the route handler (lines 178-181) responds with getCachedData
AfterRefresh(inv, t, outcome, fired) ==
    /\ IF inv \in BackgroundRuns
       THEN IF refreshSettled(runs'[inv])
            THEN \E k \in RandomDraws : scheduleNext(t, k)
            ELSE /\ timer' = IF fired THEN None ELSE timer
                 /\ UNCHANGED nextUpdateTime
       ELSE UNCHANGED <<timer, nextUpdateTime>>
    /\ last' = Op("refreshCalendarData", inv, Some(outcome),
                  IF inv = "manual" /\ runs'[inv].pc = "idle"
                  THEN Some([status |-> 200,
                             body |-> getCachedData(cacheFile',
                                                    nextUpdateTime')])
                  ELSE None,
                  NoResponse)

\* a pending setTimeout of startBackgroundRefresh fires: the first one
\* (lines 320-322) calls scheduleNext, the later ones (lines 313-316) call
\* refreshCalendarData
TimerFire ==
    /\ timer # None
    /\ LET t == IF now < timer[1].due THEN timer[1].due ELSE now
       IN  /\ now' = t
           /\ IF timer[1].first
              THEN /\ \E k \in RandomDraws : scheduleNext(t, k)
                   /\ last' = Op("startBackgroundRefresh", "", None, None,
                                 NoResponse)
                   /\ UNCHANGED <<runs, cycles>>
              ELSE /\ cycles < MaxCycles
                   /\ cycles' = cycles + 1
                   /\ \E inv \in BackgroundRuns :
                        /\ runs[inv].pc = "idle"
                        /\ inv = "bg1" \/ runs["bg1"].pc # "idle"
                        /\ runs' = [runs EXCEPT ![inv] = startRun(t)]
                        /\ AfterRefresh(inv, t,
                                        IF startRun(t).pc = "idle"
                                        THEN "noToken" ELSE startRun(t).pc,
                                        TRUE)
    /\ UNCHANGED <<ticks, env, browser, storeVars, calls, tokenFile, cacheFile,
                   stores, cycle>>

\* POST /api/refresh
ManualRefresh ==
    /\ runs["manual"].pc = "idle"
    /\ runs' = [runs EXCEPT !["manual"] = startRun(now)]
    /\ UNCHANGED cacheFile
    /\ AfterRefresh("manual", now,
                    IF startRun(now).pc = "idle"
                    THEN "noToken" ELSE startRun(now).pc,
                    FALSE)
    /\ UNCHANGED <<now, ticks, env, browser, storeVars, calls, tokenFile, cycles,
                   stores, cycle>>

\* GET /auth/callback: acquireTokenByCode succeeds and saveTokens runs
SaveTokens ==
    \E resp \in TokenResponses :
        /\ tokenFile' = saveTokens(resp)
        /\ last' = Op("saveTokens", "", None, None, NoResponse)
        /\ UNCHANGED <<now, ticks, env, browser, storeVars, calls, cacheFile,
                       nextUpdateTime, timer, runs, cycles, stores, cycle>>

\* acquireTokenSilent settles and the invocation runs to its next await or
\* to its return
TokenSettle ==
    \E inv \in RunIds :
        /\ runs[inv].pc = "awaitToken"
        /\ \/ \E resp \in TokenResponses :
                /\ tokenFile' = saveTokens(resp)
                /\ runs' = [runs EXCEPT ![inv] =
                             [@ EXCEPT !.pc = "awaitEvents",
                                       !.eventCalls = @ + 1]]
                /\ UNCHANGED cacheFile
                /\ AfterRefresh(inv, now, "awaitEvents", FALSE)
           \/ /\ runs' = [runs EXCEPT ![inv] = tokenFailed(runs[inv])]
              /\ UNCHANGED <<tokenFile, cacheFile>>
              /\ AfterRefresh(inv, now, "tokenFailed", FALSE)
        /\ UNCHANGED <<now, ticks, env, browser, storeVars, calls, cycles, stores, cycle>>

\* the event request settles and the invocation runs to its return
EventsSettle ==
    \E inv \in RunIds, events \in EventResponses :
        /\ runs[inv].pc = "awaitEvents"
        /\ IF events.ok
           THEN /\ cacheFile' = cacheData(events)
                /\ runs' = [runs EXCEPT ![inv] = IdleRun]
                /\ AfterRefresh(inv, now, "stored", FALSE)
           ELSE /\ UNCHANGED cacheFile
                /\ runs' = [runs EXCEPT ![inv] = eventsFailed(runs[inv])]
                /\ AfterRefresh(inv, now, "fetchFailed", FALSE)
        /\ UNCHANGED <<now, ticks, env, browser, storeVars, calls, tokenFile, cycles,
                       stores, cycle>>

\* the external call an invocation awaits never responds
Hang ==
    \E inv \in RunIds :
        /\ runs[inv].pc \in {"awaitToken", "awaitEvents"}
        /\ runs' = [runs EXCEPT ![inv] = [@ EXCEPT !.pc = "hung"]]
        /\ last' = Op("hang", inv, None, None, NoResponse)
        /\ UNCHANGED <<now, ticks, env, browser, storeVars, calls, tokenFile,
                       cacheFile, nextUpdateTime, timer, cycles, stores, cycle>>

----------------------------------------------------------------------------
(* The background cycle over all users (BackgroundScheduler): the loop     *)
(* that calls getAllUsers, AuthController.getValidAccessToken,             *)
(* CalendarService.getTodayEvents and CacheManager.cacheEvents once per    *)
(* user                                                                    *)

getAllUsers_TokenHolders == DOMAIN tokenData

\* CacheManager.getAllUsers
getAllUsers == DOMAIN userProfiles

\* what the provider answers to the refreshes of a cycle
CycleResponses ==
    FailedResponses
        \cup {[status |-> "ok", access_token |-> Some("A2"),
               refresh_token |-> None, expires_in |-> Some(1),
               token_type |-> None]}

\* what getTodayEvents returns to a slot of a cycle
CycleEventLists == {<<>>, <<"e1">>}

NoCycle == [pc |-> "idle", task |-> EmptyMap]

\* the slot of one user in a cycle; starts counts the times the cycle has
\* taken the user up
NewTask == [pc |-> "start", tokenData |-> None, starts |-> 0]

\* a server with both users signed in, some of them without a token record
InitCycle ==
    /\ now = MsPerSecond
    /\ ticks = 0
    /\ browser = NoBrowser
    /\ env \in [faultyDisk : {FALSE}, clientId : BOOLEAN, slots : {{"c1"}}]
    /\ userProfiles = [u \in Users |-> [id |-> u, name |-> "n1"]]
    /\ \E holders \in SUBSET Users :
         tokenData \in [holders -> SignInTokenRecords]
    /\ cachedEvents = EmptyMap
    /\ cacheTimestamps = EmptyMap
    /\ disk = [tokens |-> Some(stringifyTokens(tokenData)),
               users |-> Some(userProfiles),
               events |-> Some([events |-> cachedEvents,
                                timestamps |-> cacheTimestamps])]
    /\ saveErrors = 0
    /\ calls = [c \in CallIds |-> Idle]
    /\ last = Op("init", "", None, None, NoResponse)
    /\ tokenFile = None
    /\ cacheFile = None
    /\ nextUpdateTime = now
    /\ timer = None
    /\ runs = [i \in RunIds |-> IdleRun]
    /\ cycles = 0
    /\ stores = EmptyMap
    /\ cycle = NoCycle

\* the timer fires one nominal period after it was armed: the cycle takes
\* the user ids of the profile table
CycleStart ==
    /\ cycle.pc = "idle"
    /\ cycles < MaxCycles
    /\ cycles' = cycles + 1
    /\ now' = now + BaseDelaySec * MsPerSecond
    /\ cycle' = [pc |-> "running", task |-> [u \in getAllUsers |-> NewTask]]
    /\ last' = Op("cycleStart", "", None, None, NoResponse)
    /\ UNCHANGED <<ticks, env, browser, storeVars, calls, tokenFile, cacheFile,
                   nextUpdateTime, timer, runs, stores>>

\* the slot of user u calls getValidAccessToken(u), which runs to its
\* return or to the fetch of refreshToken
TaskStart ==
    \E u \in DOMAIN cycle.task :
        /\ cycle.pc = "running"
        /\ cycle.task[u].pc = "start"
        /\ LET pc == IF needsFetch(u) THEN "awaitRefresh"
                     ELSE IF isTokenExpired(u) THEN "failed"
                     ELSE IF getAccessTokenOrNull(u) = None THEN "failed"
                     ELSE "awaitEvents"
           IN  /\ cycle' = [cycle EXCEPT !.task[u] =
                             [pc |-> pc, tokenData |-> getTokenData(u),
                              starts |-> @.starts + 1]]
               /\ last' = Op("taskStart", u, None, Some(pc), NoResponse)
        /\ UNCHANGED <<now, ticks, env, browser, storeVars, calls, serverVars,
                       stores>>

\* the fetch of refreshToken settles for the slot of user u
TaskRefreshSettle ==
    \E u \in DOMAIN cycle.task, resp \in CycleResponses :
        /\ cycle.task[u].pc = "awaitRefresh"
        /\ IF refreshSucceeds(resp)
           THEN storeTokenData(u, refreshedTokenData(cycle.task[u].tokenData[1],
                                                     resp))
           ELSE /\ tokenData' = failedRefreshTokens(u)
                /\ UNCHANGED <<userProfiles, cachedEvents, cacheTimestamps,
                               disk, saveErrors>>
        /\ cycle' = [cycle EXCEPT !.task[u].pc =
                        IF refreshSucceeds(resp) THEN "awaitEvents"
                        ELSE "failed"]
        /\ last' = Op("taskRefresh", u, None, None, resp)
        /\ UNCHANGED <<now, ticks, env, browser, calls, serverVars, stores>>

\* getTodayEvents settles for the slot of user u: the events are cached, or
\* the failure is recorded for this user
TaskEventsSettle ==
    \E u \in DOMAIN cycle.task :
        /\ cycle.task[u].pc = "awaitEvents"
        /\ \/ \E events \in CycleEventLists :
                /\ cacheEvents(u, events)
                /\ cycle' = [cycle EXCEPT !.task[u].pc = "ok"]
                /\ last' = Op("taskEvents", u, Some(events), Some("ok"),
                              NoResponse)
           \/ /\ cycle' = [cycle EXCEPT !.task[u].pc = "failed"]
              /\ last' = Op("taskEvents", u, None, Some("failed"),
                            NoResponse)
              /\ UNCHANGED storeVars
        /\ UNCHANGED <<now, ticks, env, browser, calls, serverVars, stores>>

\* every slot has settled: the cycle ends and the timer is armed again
CycleEnd ==
    /\ cycle.pc = "running"
    /\ \A u \in DOMAIN cycle.task : cycle.task[u].pc \in {"ok", "failed"}
    /\ cycle' = [cycle EXCEPT !.pc = "idle"]
    /\ last' = Op("cycleEnd", "", None, None, NoResponse)
    /\ UNCHANGED <<now, ticks, env, browser, storeVars, calls, serverVars, stores>>

----------------------------------------------------------------------------
(* The store objects of the process.  The tables tokenData, userProfiles,  *)
(* cachedEvents and cacheTimestamps are those of the CacheManager the      *)
(* server constructs for itself; stores["auth"] tells which CacheManager   *)
(* the AuthController uses: that one, or one of its own with tables of its *)
(* own over the same files.                                                *)

\* CacheManager.loadFromDisk: the tables of a store object constructed over
\* the files d
loadFromDisk(d) ==
    [tokenData       |-> IF d.tokens = None THEN EmptyMap
                         ELSE parseTokens(d.tokens[1]),
     userProfiles    |-> IF d.users = None THEN EmptyMap ELSE d.users[1],
     cachedEvents    |-> IF d.events = None THEN EmptyMap
                         ELSE d.events[1].events,
     cacheTimestamps |-> IF d.events = None THEN EmptyMap
                         ELSE d.events[1].timestamps]

\* AuthController constructor, line 110: cacheManager || new CacheManager()
\* (line 9 of the earlier version is the case without an argument)
authStore(cacheManager) ==
    IF cacheManager # None
    THEN [own |-> FALSE, used |-> FALSE, tables |-> None]
    ELSE [own |-> TRUE, used |-> FALSE, tables |-> Some(loadFromDisk(disk))]

\* new AuthController(cacheManager) / new AuthController()
ConstructAuthController ==
    \E cacheManager \in {None, Some("shared")} :
        /\ "auth" \notin DOMAIN stores
        /\ stores' = MapSet(stores, "auth", authStore(cacheManager))
        /\ last' = Op("newAuthController", "", cacheManager, None, NoResponse)
        /\ UNCHANGED <<now, ticks, env, browser, storeVars, calls, serverVars, cycle>>

\* what the code exchange of handleCallback can yield: a failure, a body
\* without access_token, or a token with any expires_in
SignInResponses ==
    FailedResponses
        \cup {[NoResponse EXCEPT !.status = "ok"]}
        \cup [status        : {"ok"},
              access_token  : {Some("A1")},
              refresh_token : {Some("R1")},
              expires_in    : {None, Some(0), Some(1), Some(2)},
              token_type    : {None}]

\* handleCallback, lines 168-190: the record built from the token response
signInTokenData(resp) ==
    [accessToken  |-> resp.access_token[1],
     refreshToken |-> resp.refresh_token,
     expiresAt    |-> newExpiresAt(resp.expires_in),
     tokenType    |-> OrElse(resp.token_type, Some("Bearer"))]

\* handleCallback reaches its two store calls: the client id is set, the
\* exchange answered 2xx with an access_token, the profile was fetched
callbackSucceeds(resp, profile) ==
    /\ env.clientId
    /\ resp.status = "ok"
    /\ TruthyStr(resp.access_token)
    /\ profile # None

\* handleCallback for one of the given accounts whose profile has one of
\* the given names (None: getUserProfile throws). On success
\* storeTokenData and storeUserProfile on the CacheManager of the
\* AuthController, each followed by saveToDisk, and the redirect to
\* /?userId=...&loginSuccess=true; otherwise the catch and the redirect to
\* /?error=auth_failed
HandleCallbackOf(users, names) ==
    \E resp \in SignInResponses,
       fetched \in {None} \cup {Some(pr) : pr \in
                                    UNION {ProfilesOf(u, names) : u \in users}} :
        /\ "auth" \in DOMAIN stores
        /\ IF callbackSucceeds(resp, fetched)
           THEN LET td == signInTokenData(resp)
                    profile == fetched[1]
                    userId == profile.id
                IN
                /\ IF ~stores["auth"].own
                   THEN /\ Commit(MapSet(tokenData, userId, td),
                                  MapSet(userProfiles, userId, profile),
                                  cachedEvents, cacheTimestamps)
                        /\ stores' = [stores EXCEPT !["auth"].used = TRUE]
                   ELSE LET old == stores["auth"].tables[1]
                            new == [old EXCEPT
                                      !.tokenData = MapSet(@, userId, td),
                                      !.userProfiles =
                                          MapSet(@, userId, profile)]
                        IN  /\ stores' =
                                 [stores EXCEPT !["auth"].used = TRUE,
                                                !["auth"].tables = Some(new)]
                            /\ Persist(new.tokenData, new.userProfiles,
                                       new.cachedEvents, new.cacheTimestamps)
                            /\ UNCHANGED <<tokenData, userProfiles,
                                           cachedEvents, cacheTimestamps>>
                /\ last' = Op("handleCallback", userId, Some(td),
                              Some("loginSuccess"), resp)
           ELSE /\ last' = Op("handleCallback", "", None,
                              Some("auth_failed"), resp)
                /\ UNCHANGED <<storeVars, stores>>
        /\ UNCHANGED <<now, ticks, env, browser, calls, serverVars, cycle>>

HandleCallback == HandleCallbackOf(Users, {"n1"})

----------------------------------------------------------------------------
(* Sign-in, refresh and logout on the store of the server *)

\* a server started with an empty data directory whose AuthController was
\* given the CacheManager of the server
InitLogin ==
    /\ now = MsPerSecond
    /\ ticks = 0
    /\ browser = NoBrowser
    /\ env = [faultyDisk |-> FALSE, clientId |-> TRUE, slots |-> {"c1"}]
    /\ tokenData = EmptyMap
    /\ userProfiles = EmptyMap
    /\ cachedEvents = EmptyMap
    /\ cacheTimestamps = EmptyMap
    /\ disk = [tokens |-> None, users |-> None, events |-> None]
    /\ saveErrors = 0
    /\ calls = [c \in CallIds |-> Idle]
    /\ last = Op("init", "", None, None, NoResponse)
    /\ tokenFile = None
    /\ cacheFile = None
    /\ nextUpdateTime = now
    /\ timer = None
    /\ runs = [i \in RunIds |-> IdleRun]
    /\ cycles = 0
    /\ stores = [x \in {"auth"} |-> authStore(Some("shared"))]
    /\ cycle = NoCycle

----------------------------------------------------------------------------
(* A store with a data directory whose writes may fail *)

\* the process ends and a new one constructs its CacheManager over the
\* files the old one left: constructor, loadFromDisk. A file is whole or
\* untouched (a failed writeFileSync leaves the old text), so every file
\* parses
Restart ==
    /\ LET loaded == loadFromDisk(disk)
       IN  /\ tokenData' = loaded.tokenData
           /\ userProfiles' = loaded.userProfiles
           /\ cachedEvents' = loaded.cachedEvents
           /\ cacheTimestamps' = loaded.cacheTimestamps
    /\ last' = Op("restart", "", None, None, NoResponse)
    /\ UNCHANGED <<now, ticks, env, browser, disk, saveErrors, calls, serverVars,
                   stores, cycle>>

\* a process started with an empty data directory on a file system whose
\* writes may fail
InitPersist ==
    /\ now = MsPerSecond
    /\ ticks = 0
    /\ browser = NoBrowser
    /\ env = [faultyDisk |-> TRUE, clientId |-> TRUE, slots |-> {"c1"}]
    /\ tokenData = EmptyMap
    /\ userProfiles = EmptyMap
    /\ cachedEvents = EmptyMap
    /\ cacheTimestamps = EmptyMap
    /\ disk = [tokens |-> None, users |-> None, events |-> None]
    /\ saveErrors = 0
    /\ calls = [c \in CallIds |-> Idle]
    /\ last = Op("init", "", None, None, NoResponse)
    /\ tokenFile = None
    /\ cacheFile = None
    /\ nextUpdateTime = now
    /\ timer = None
    /\ runs = [i \in RunIds |-> IdleRun]
    /\ cycles = 0
    /\ stores = EmptyMap
    /\ cycle = NoCycle

----------------------------------------------------------------------------
(* Overlapping operations on one store *)

\* a server with both users signed in whose tokens have expired, and with
\* two getValidAccessToken invocations that may be pending at a time
InitConc ==
    /\ now = MsPerSecond
    /\ ticks = 0
    /\ browser = NoBrowser
    /\ env = [faultyDisk |-> FALSE, clientId |-> TRUE, slots |-> CallIds]
    /\ userProfiles = [u \in Users |-> [id |-> u, name |-> "n1"]]
    /\ tokenData = [u \in Users |->
                      [accessToken |-> "A1", refreshToken |-> Some("R1"),
                       expiresAt |-> Some(MsPerSecond),
                       tokenType |-> Some("Bearer")]]
    /\ cachedEvents = EmptyMap
    /\ cacheTimestamps = EmptyMap
    /\ disk = [tokens |-> Some(stringifyTokens(tokenData)),
               users |-> Some(userProfiles),
               events |-> Some([events |-> cachedEvents,
                                timestamps |-> cacheTimestamps])]
    /\ saveErrors = 0
    /\ calls = [c \in CallIds |-> Idle]
    /\ last = Op("init", "", None, None, NoResponse)
    /\ tokenFile = None
    /\ cacheFile = None
    /\ nextUpdateTime = now
    /\ timer = None
    /\ runs = [i \in RunIds |-> IdleRun]
    /\ cycles = 0
    /\ stores = EmptyMap
    /\ cycle = NoCycle

----------------------------------------------------------------------------
(* The token refresher with its callers *)

Next ==
    \/ Tick
    \/ StoreTokenData
    \/ ClearUserData
    \/ GetValidAccessToken
    \/ RefreshTokenResume

Spec == Init /\ [][Next]_vars

(* The event cache with its callers *)

NextCache ==
    \/ Tick
    \/ LongTick
    \/ CacheEvents
    \/ ClearUserData
    \/ ClearAllData

SpecCache == Init /\ [][NextCache]_vars

(* The calendar server of index.ts *)

NextServer ==
    \/ TimerFire
    \/ ManualRefresh
    \/ SaveTokens
    \/ TokenSettle
    \/ EventsSettle
    \/ Hang

SpecServer == Init /\ [][NextServer]_vars

(* The store objects of the process *)

NextWiring ==
    \/ ConstructAuthController
    \/ HandleCallback
    \/ ClearUserData

SpecWiring == Init /\ [][NextWiring]_vars

(* The token table with its callers *)

NextStore ==
    \/ StoreTokenData
    \/ StoreAccessToken
    \/ RemoveAccessToken
    \/ ClearUserData

SpecStore == Init /\ [][NextStore]_vars

(* Overlapping token refreshes on one store *)

NextConc ==
    \/ GetValidAccessToken
    \/ RefreshTokenResume

SpecConc == InitConc /\ [][NextConc]_vars

(* Sign-in, token refresh, event caching and logout *)

NextLogin ==
    \/ Tick
    \/ HandleCallbackOf({"u1"}, Names)
    \/ GetValidAccessToken
    \/ RefreshTokenResume
    \/ CacheEventsOf({<<"e1">>})
    \/ ClearUserData

SpecLogin == InitLogin /\ [][NextLogin]_vars

(* A store whose writes may fail: every mutating call, and restarts *)

NextPersist ==
    \/ StoreTokenDataOf(SignInTokenRecords)
    \/ RemoveAccessToken
    \/ StoreUserProfileOf({"n1"})
    \/ CacheEventsOf({<<"e1">>})
    \/ ClearUserData
    \/ ClearAllData
    \/ Restart

SpecPersist == InitPersist /\ [][NextPersist]_vars

(* The background cycle over all users *)

NextCycle ==
    \/ CycleStart
    \/ TaskStart
    \/ TaskRefreshSettle
    \/ TaskEventsSettle
    \/ CycleEnd

SpecCycle == InitCycle /\ [][NextCycle]_vars

----------------------------------------------------------------------------
(* Properties of getValidAccessToken and refreshToken *)

\* the step just taken is an invocation of getValidAccessToken(u)
Invoked(u) ==
    /\ last'.op \in {"getValidAccessToken", "fetch"}
    /\ last'.userId = u

\* the step just taken sent a request to the identity provider
SentRequest ==
    \E c \in CallIds : calls[c].pc = "idle" /\ calls'[c].pc = "awaitFetch"

\* the step just taken is the return of a refreshToken(u) whose fetch settled
Settled(u) ==
    /\ last'.op = "refreshToken"
    /\ last'.userId = u

\* the settled exchange is a failure: thrown error, non-2xx status, malformed
\* body or a body without access_token
ExchangeFailed(resp) ==
    \/ resp.status \in {"throw", "non2xx", "badjson"}
    \/ resp.access_token = None

\* expired as the specification defines it: an expiry instant that has passed
ExpiredBySpec(u) ==
    /\ u \in DOMAIN tokenData
    /\ tokenData[u].expiresAt # None
    /\ now >= tokenData[u].expiresAt[1]

\* C1: for a user whose token record exists and is not expired (expiresAt
\* absent, or now < expiresAt), getValidAccessToken returns exactly the stored
\* accessToken, sends no request to the identity provider and leaves the
\* token table unchanged.
C1_ValidTokenReturnedWithoutRequest ==
    [][\A u \in Users :
         ( /\ Invoked(u)
           /\ u \in DOMAIN tokenData
           /\ \/ tokenData[u].expiresAt = None
              \/ now < tokenData[u].expiresAt[1] )
         => /\ last'.op = "getValidAccessToken"
            /\ last'.ret = Some(tokenData[u].accessToken)
            /\ ~SentRequest
            /\ calls' = calls
            /\ storeVars' = storeVars]_vars

C1_Witness ==
    \E u \in Users :
        /\ last.op = "getValidAccessToken"
        /\ last.userId = u
        /\ u \in DOMAIN tokenData
        /\ tokenData[u].expiresAt # None
        /\ now < tokenData[u].expiresAt[1]
        /\ last.ret = Some(tokenData[u].accessToken)

\* C2 as stated: when the exchange succeeds with access token A and
\* expires_in E, getValidAccessToken returns A and the stored record has
\* accessToken = A and expiresAt = completion time + E*1000, and isExpired is
\* false immediately after -- for every E the provider can send.
C2_AsStated ==
    [][\A u \in Users :
         ( /\ Settled(u)
           /\ last'.resp.status = "ok"
           /\ last'.resp.access_token # None
           /\ last'.resp.expires_in # None )
         => /\ last'.ret = last'.resp.access_token
            /\ u \in DOMAIN tokenData'
            /\ tokenData'[u].accessToken = last'.resp.access_token[1]
            /\ tokenData'[u].expiresAt =
                   Some(now' + last'.resp.expires_in[1] * 1000)
            /\ ~isTokenExpired(u)']_vars

\* C2, amended: as C2 for E > 0; for E = 0 the record is stored without
\* expiresAt; in both cases A is returned and stored and isExpired is false
\* immediately after.
C2_RefreshStoresTokenAndExpiry ==
    [][\A u \in Users :
         ( /\ Settled(u)
           /\ last'.resp.status = "ok"
           /\ last'.resp.access_token # None
           /\ last'.resp.expires_in # None )
         => /\ last'.ret = last'.resp.access_token
            /\ u \in DOMAIN tokenData'
            /\ tokenData'[u].accessToken = last'.resp.access_token[1]
            /\ tokenData'[u].expiresAt =
                   IF last'.resp.expires_in[1] > 0
                   THEN Some(now' + last'.resp.expires_in[1] * 1000)
                   ELSE None
            /\ ~isTokenExpired(u)']_vars

C2_Witness ==
    \E u \in Users :
        /\ last.op = "refreshToken"
        /\ last.userId = u
        /\ last.resp.expires_in = Some(1)
        /\ last.ret = Some("A2")
        /\ u \in DOMAIN tokenData
        /\ tokenData[u].accessToken = "A2"
        /\ tokenData[u].expiresAt = Some(now + 1000)

\* C3: when the exchange fails (thrown error, non-2xx status, malformed body,
\* body without access_token), getValidAccessToken returns absent and changes
\* nothing in the store; a record that nothing else touched during the call
\* is still present and still expired.
C3_FailedRefreshKeepsRecord ==
    [][\A u \in Users :
         ( Settled(u) /\ ExchangeFailed(last'.resp) )
         => /\ last'.ret = None
            /\ storeVars' = storeVars
            /\ getTokenData(u) = last'.arg
               => /\ getTokenData(u)' = last'.arg
                  /\ isTokenExpired(u)']_vars

C3_Witness ==
    \E u \in Users :
        /\ last.op = "refreshToken"
        /\ last.userId = u
        /\ last.resp.status = "non2xx"
        /\ last.ret = None
        /\ getTokenData(u) = last.arg
        /\ isTokenExpired(u)

\* C4: for a user with no token record, getValidAccessToken returns absent,
\* sends no request to the identity provider and creates no record in any
\* table, in memory or on disk.
C4_NoRecordReturnsAbsent ==
    [][\A u \in Users :
         ( Invoked(u) /\ u \notin DOMAIN tokenData )
         => /\ last'.op = "getValidAccessToken"
            /\ last'.ret = None
            /\ ~SentRequest
            /\ calls' = calls
            /\ storeVars' = storeVars]_vars

C4_Witness ==
    \E u \in Users :
        /\ last.op = "getValidAccessToken"
        /\ last.userId = u
        /\ u \notin DOMAIN tokenData
        /\ DOMAIN tokenData # {}
        /\ last.ret = None

\* C5 as stated: for a user whose record is expired (its expiry instant has
\* passed) and holds no refresh token, getValidAccessToken returns absent,
\* sends no request and leaves the record untouched.
C5_AsStated ==
    [][\A u \in Users :
         ( /\ Invoked(u)
           /\ ExpiredBySpec(u)
           /\ tokenData[u].refreshToken = None )
         => /\ last'.op = "getValidAccessToken"
            /\ last'.ret = None
            /\ ~SentRequest
            /\ storeVars' = storeVars]_vars

\* C5 for every expiry instant but 0, where isTokenExpired agrees with the
\* specification
C5_NonZeroExpiry ==
    [][\A u \in Users :
         ( /\ Invoked(u)
           /\ ExpiredBySpec(u)
           /\ tokenData[u].expiresAt # Some(0)
           /\ tokenData[u].refreshToken = None )
         => /\ last'.op = "getValidAccessToken"
            /\ last'.ret = None
            /\ ~SentRequest
            /\ storeVars' = storeVars]_vars

\* C6: after a successful refresh the stored refreshToken is the one the
\* provider returned if the response carries one, and otherwise the one the
\* refresh was started with; it is never absent.
C6_RefreshTokenCarriedOver ==
    [][\A u \in Users :
         ( /\ Settled(u)
           /\ last'.resp.status = "ok"
           /\ last'.resp.access_token # None )
         => /\ u \in DOMAIN tokenData'
            /\ tokenData'[u].refreshToken # None
            /\ tokenData'[u].refreshToken =
                   IF last'.resp.refresh_token # None
                   THEN last'.resp.refresh_token
                   ELSE last'.arg[1].refreshToken]_vars

C6_Witness ==
    \E u \in Users :
        /\ last.op = "refreshToken"
        /\ last.userId = u
        /\ last.ret = Some("A2")
        /\ last.resp.refresh_token = None
        /\ u \in DOMAIN tokenData
        /\ tokenData[u].refreshToken = Some("R1")

\* C7 as stated: isExpired(userId) is false when the user has no record or
\* the record has no expiresAt, and otherwise equals now >= expiresAt, for
\* every expiresAt including 0.
C7_AsStated ==
    \A u \in Users :
        isTokenExpired(u) =
            ( /\ u \in DOMAIN tokenData
              /\ tokenData[u].expiresAt # None
              /\ now >= tokenData[u].expiresAt[1] )

\* C7 for every expiry instant but 0
C7_NonZeroExpiry ==
    \A u \in Users :
        ( u \in DOMAIN tokenData => tokenData[u].expiresAt # Some(0) )
        => isTokenExpired(u) =
               ( /\ u \in DOMAIN tokenData
                 /\ tokenData[u].expiresAt # None
                 /\ now >= tokenData[u].expiresAt[1] )

----------------------------------------------------------------------------
(* Properties of the event cache *)

\* the values of maxAgeMs the queries are asked with
MaxAges == {0 - MsPerSecond, 0, 1, MsPerSecond, 2 * MsPerSecond, 300000}

\* C8: isFresh(userId, maxAgeMs) is false when the user has no fetch
\* timestamp, and get(userId) is then absent; otherwise it equals
\* now - fetchedAt < maxAgeMs, for every maxAgeMs; without the argument
\* maxAgeMs is 300000.
C8_IsFreshIsAgeBelowMaxAge ==
    \A u \in Users :
        /\ \A m \in MaxAges :
               isCacheValid(u, m) =
                   ( /\ u \in DOMAIN cacheTimestamps
                     /\ now - cacheTimestamps[u] < m )
        /\ isCacheValidDefault(u) =
               ( /\ u \in DOMAIN cacheTimestamps
                 /\ now - cacheTimestamps[u] < 300000 )
        /\ u \notin DOMAIN cacheTimestamps
           => /\ getCachedEvents(u) = None
              /\ \A m \in MaxAges : ~isCacheValid(u, m)

C8_Witness ==
    \E u, v \in Users :
        /\ u \in DOMAIN cacheTimestamps
        /\ now - cacheTimestamps[u] = 300000
        /\ ~isCacheValidDefault(u)
        /\ isCacheValid(u, 300000 + 1)
        /\ v \notin DOMAIN cacheTimestamps
        /\ last.op = "clearUserData"
        /\ last.userId = v

\* C9 as stated: for every maxAgeMs, isFresh(userId, maxAgeMs) is true right
\* after put(userId, events), at the same clock value, and false whenever
\* now - fetchedAt >= maxAgeMs.
C9_AsStated ==
    \A u \in Users, m \in MaxAges :
        /\ ( last.op = "cacheEvents" /\ last.userId = u )
           => isCacheValid(u, m)
        /\ ( u \in DOMAIN cacheTimestamps /\ now - cacheTimestamps[u] >= m )
           => ~isCacheValid(u, m)

\* C9, amended: the same for every maxAgeMs > 0.
C9_FreshAfterPutStaleAfterMaxAge ==
    \A u \in Users, m \in {x \in MaxAges : x > 0} :
        /\ ( last.op = "cacheEvents" /\ last.userId = u )
           => isCacheValid(u, m)
        /\ ( u \in DOMAIN cacheTimestamps /\ now - cacheTimestamps[u] >= m )
           => ~isCacheValid(u, m)

C9_Witness ==
    \E u \in Users :
        /\ last.op = "cacheEvents"
        /\ last.userId = u
        /\ ticks > 0
        /\ cacheTimestamps[u] = now
        /\ isCacheValid(u, 1)

\* C10: put(userId, events) makes the user's cached list exactly the given
\* list, whatever was cached before, stamps fetchedAt with the current time,
\* so that get(userId) returns that list, and changes no other user's events
\* or timestamp, and no token or profile.
C10_PutReplacesWholesale ==
    [][\A u \in Users :
         ( last'.op = "cacheEvents" /\ last'.userId = u )
         => /\ getCachedEvents(u)' = last'.arg
            /\ getCacheTimestamp(u)' = Some(now)
            /\ now' = now
            /\ \A v \in Users \ {u} :
                   /\ getCachedEvents(v)' = getCachedEvents(v)
                   /\ getCacheTimestamp(v)' = getCacheTimestamp(v)
            /\ tokenData' = tokenData
            /\ userProfiles' = userProfiles]_vars

C10_Witness ==
    \E u, v \in Users :
        /\ u # v
        /\ last.op = "cacheEvents"
        /\ last.userId = u
        /\ last.arg = Some(<<"e2">>)
        /\ getCachedEvents(u) = Some(<<"e2">>)
        /\ getCachedEvents(v) = Some(<<"e1">>)
        /\ getCacheTimestamp(v) # None
        /\ getCacheTimestamp(v)[1] < now


----------------------------------------------------------------------------
(* Properties of overlapping operations on one store *)

\* the files hold what the tables in memory hold
DiskIsMemory ==
    /\ disk.tokens = Some(stringifyTokens(tokenData))
    /\ disk.users = Some(userProfiles)
    /\ disk.events = Some([events |-> cachedEvents,
                           timestamps |-> cacheTimestamps])

\* C18: with refreshes of different users suspended at their fetches at the
\* same time, each successful refresh writes the record of its own user
\* and leaves every other entry of every table as it was, a failed one
\* changes nothing, and after every step the files hold exactly the tables
\* in memory.
C18_UpsertsSerialized ==
    /\ []DiskIsMemory
    /\ [][\A u \in Users :
            (last'.op = "refreshToken" /\ last'.userId = u) =>
                /\ MapGet(tokenData', u) =
                       IF refreshSucceeds(last'.resp)
                       THEN Some([accessToken  |-> last'.resp.access_token[1],
                                  refreshToken |->
                                      OrElse(last'.resp.refresh_token,
                                             last'.arg[1].refreshToken),
                                  expiresAt    |->
                                      newExpiresAt(last'.resp.expires_in),
                                  tokenType    |->
                                      OrElse(last'.resp.token_type,
                                             Some("Bearer"))])
                       ELSE MapGet(tokenData, u)
                /\ \A v \in Users \ {u} :
                       MapGet(tokenData', v) = MapGet(tokenData, v)
                /\ DOMAIN tokenData' = DOMAIN tokenData
                /\ UNCHANGED <<userProfiles, cachedEvents, cacheTimestamps>>
       ]_vars

\* the refresh of one user has just stored its record while the refresh of
\* the other user, started before it, is still suspended, and both the
\* table and the file hold the records of both users
C18_Witness ==
    \E u, v \in Users, c \in CallIds :
        /\ u # v
        /\ last.op = "refreshToken" /\ last.userId = u
        /\ refreshSucceeds(last.resp)
        /\ calls[c].pc = "awaitFetch" /\ calls[c].userId = v
        /\ tokenData[u].accessToken = "A2"
        /\ disk.tokens[1][v].accessToken = "A1"

----------------------------------------------------------------------------
(* Properties of the background cycle over all users *)

\* a step of the cycle that moves the slot of user u
TaskStep(u) ==
    /\ NextCycle
    /\ cycle'.pc = "running"
    /\ cycle'.task[u] # cycle.task[u]

----------------------------------------------------------------------------
(* Properties of the background refresh of index.ts *)

\* the background invocations of refreshCalendarData that have not returned
BackgroundInProgress ==
    {i \in BackgroundRuns : runs[i].pc # "idle"}

\* the step just taken is an invocation i of refreshCalendarData returning
\* after a failed token lookup, token refresh or event request
FailedRefresh(i) ==
    /\ last'.op = "refreshCalendarData"
    /\ last'.userId = i
    /\ last'.arg \in {Some("noToken"), Some("tokenFailed"), Some("fetchFailed")}

\* C12: at most one background refresh is in progress at any time, and while
\* one is in progress no timer for the next one is armed.
C12_AtMostOneCycleInProgress ==
    /\ Cardinality(BackgroundInProgress) <= 1
    /\ timer # None => BackgroundInProgress = {}

\* the second background refresh is at its second external call and no
\* timer is pending
C12_Witness ==
    /\ cycles = 2
    /\ timer = None
    /\ \E i \in BackgroundRuns :
          runs[i].pc = "awaitEvents" /\ runs[i].tokenCalls = 1

\* C13: a background refresh whose token lookup, token refresh or event
\* request fails ends with the timer of the next refresh armed, and once
\* the scheduler has started there is always a timer pending or a refresh
\* in progress.
C13_FailureReschedules ==
    /\ [](env.clientId =>
            \/ timer # None
            \/ \E i \in BackgroundRuns :
                 runs[i].pc \in {"awaitToken", "awaitEvents", "hung"})
    /\ [][\A i \in BackgroundRuns :
            FailedRefresh(i) =>
                /\ timer' # None
                /\ timer'[1].due > now'
                /\ runs'[i].pc = "idle"]_vars

\* the second background refresh has just failed at its event request and
\* the third one is scheduled
C13_Witness ==
    /\ last.op = "refreshCalendarData"
    /\ last.userId \in BackgroundRuns
    /\ last.arg = Some("fetchFailed")
    /\ cycles = 2
    /\ timer # None

\* a step of the server that moves background invocation i or the timer
BackgroundStep(i) ==
    /\ NextServer
    /\ runs'[i] # runs[i] \/ timer' # timer

\* C14: a background refresh whose external call never responds does not
\* block the scheduler: a timer is pending or a step that moves the refresh
\* on (a timeout) is possible.
C14_AsStated ==
    \A i \in BackgroundRuns :
        runs[i].pc = "hung" => (timer # None \/ ENABLED BackgroundStep(i))

\* a step of the server that arms the timer with delay d
Arms(d) ==
    /\ NextServer
    /\ timer' # None
    /\ timer' # timer
    /\ timer'[1].delay = d

\* C15: every delay handed to the setTimeout of scheduleNext lies in
\* [50000, 70000] ms, and wherever scheduleNext can run it can draw every
\* delay, whatever was drawn before, so that the period is not fixed.
C15_DelayInRangeDrawnAnew ==
    /\ (timer # None /\ ~timer[1].first) =>
            /\ timer[1].delay >= 50000
            /\ timer[1].delay <= 70000
            /\ timer[1].due = nextUpdateTime
    /\ (ENABLED (NextServer /\ timer' # None /\ timer' # timer)) =>
            /\ \A k \in RandomDraws : ENABLED Arms(getRandomDelay(k))
            /\ \E k1, k2 \in RandomDraws :
                    getRandomDelay(k1) # getRandomDelay(k2)

\* the third delay is drawn after two refreshes whose delays differed
C15_Witness ==
    /\ cycles = 2
    /\ timer # None
    /\ timer[1].delay = getRandomDelay(0)
    /\ now = MsPerSecond + FirstDelayMs + getRandomDelay(0)
                + getRandomDelay(RandomSteps - 1)

\* C16: a background refresh sends at most one acquireTokenSilent call and
\* at most one event request, and returns when one of them fails.
C16_OneAttemptPerCycle ==
    /\ [](\A i \in BackgroundRuns :
            runs[i].tokenCalls <= 1 /\ runs[i].eventCalls <= 1)
    /\ [][\A i \in BackgroundRuns :
            (last'.op = "refreshCalendarData" /\ last'.userId = i
                /\ last'.arg \in {Some("tokenFailed"), Some("fetchFailed")})
            => runs'[i] = IdleRun]_vars

\* a background refresh has refreshed its token and awaits its event
\* request
C16_Witness ==
    \E i \in BackgroundRuns :
        /\ runs[i].pc = "awaitEvents"
        /\ runs[i].tokenCalls = 1
        /\ runs[i].eventCalls = 1

\* a failed refresh leaves data_cache.json as it was
C17_FailureKeepsCache ==
    [][\A i \in RunIds : FailedRefresh(i) => cacheFile' = cacheFile]_vars

\* C17: a failed refresh leaves the cached events and their fetch time as
\* they were, and the manual refresh answers with an error exactly when
\* there is no cached set to fall back to.
C17_AsStated ==
    [][\A i \in RunIds :
        FailedRefresh(i) =>
            /\ cacheFile' = cacheFile
            /\ i = "manual" =>
                    ((last'.ret[1].status # 200) <=> (cacheFile = None))]_vars


----------------------------------------------------------------------------
(* Properties of the token table *)

\* the step just taken changed the token record of user u
TokenRecordChanged(u) == MapGet(tokenData', u) # MapGet(tokenData, u)

\* every call but storeAccessToken stores the record it is given, or
\* deletes the record
C20_OtherCallsWholeRecord ==
    [][\A u \in Users :
        (TokenRecordChanged(u) /\ last'.op # "storeAccessToken") =>
            \/ MapGet(tokenData', u) = None
            \/ last'.userId = u /\ MapGet(tokenData', u) = last'.arg]_vars

\* C20: a step that changes the token record of a user either deletes it
\* or leaves it equal, in all fields, to the record the call was given.
C20_AsStated ==
    [][\A u \in Users :
        TokenRecordChanged(u) =>
            \/ MapGet(tokenData', u) = None
            \/ last'.userId = u /\ MapGet(tokenData', u) = last'.arg]_vars


----------------------------------------------------------------------------
(* Properties of the store objects *)

\* C19: no component works on a CacheManager of its own: every component
\* that has read or written the tables did so on the one store object of
\* the process.
C19_AsStated ==
    \A c \in DOMAIN stores : ~(stores[c].own /\ stores[c].used)

\* an AuthController that is handed the store of the process leaves the
\* files equal to the tables of that store
C19_SharedStoreKeepsFiles ==
    ("auth" \in DOMAIN stores /\ ~stores["auth"].own /\ disk.tokens # None)
        => DiskIsMemory

\* a token record that the AuthController holds for a signed-in user is
\* in tokens.json (fails with a store of its own: a logout through the
\* store of the server rewrites tokens.json from tables that never saw the
\* sign-in)
C19_SignInStaysOnDisk ==
    ("auth" \in DOMAIN stores /\ stores["auth"].own) =>
        \A u \in DOMAIN stores["auth"].tables[1].tokenData :
            disk.tokens # None /\ u \in DOMAIN disk.tokens[1]

----------------------------------------------------------------------------
(* Properties of the persisted store *)

\* the mutating calls of the store
MutatingOps == {"storeTokenData", "removeAccessToken", "storeUserProfile",
                "cacheEvents", "clearUserData", "clearAllData"}

\* the step is a mutating call whose saveToDisk logged no error
SavedWithoutError == last'.op \in MutatingOps /\ saveErrors' = saveErrors

\* the step is a mutating call whose saveToDisk logged an error
SaveFailed == last'.op \in MutatingOps /\ saveErrors' # saveErrors

\* the tables in memory after the step show what the call of the step was
\* to do
MutationInMemory ==
    LET u == last'.userId
    IN  CASE last'.op = "storeTokenData" ->
               MapGet(tokenData', u) = last'.arg
          [] last'.op = "removeAccessToken" -> u \notin DOMAIN tokenData'
          [] last'.op = "storeUserProfile" ->
               MapGet(userProfiles', u) = last'.arg
          [] last'.op = "cacheEvents" ->
               /\ MapGet(cachedEvents', u) = last'.arg
               /\ MapGet(cacheTimestamps', u) = Some(now)
          [] last'.op = "clearUserData" ->
               /\ u \notin DOMAIN tokenData'
               /\ u \notin DOMAIN userProfiles'
               /\ u \notin DOMAIN cachedEvents'
               /\ u \notin DOMAIN cacheTimestamps'
          [] last'.op = "clearAllData" ->
               /\ tokenData' = EmptyMap
               /\ userProfiles' = EmptyMap
               /\ cachedEvents' = EmptyMap
               /\ cacheTimestamps' = EmptyMap

\* C21: after every mutating call of the store (token put and remove,
\* profile put, event put, clear of one user, clear of all) whose save
\* logged no error, the three files hold exactly what the four tables in
\* memory hold, whatever earlier failed saves left in the files; the files
\* are written within the call
C21_SavedCallLeavesFilesEqual ==
    [][SavedWithoutError => DiskIsMemory']_vars

\* a logout that saved without error, with the data of the other user in
\* all four tables and in the files
C21_Witness ==
    /\ last.op = "clearUserData"
    /\ saveErrors = 0
    /\ tokenData # EmptyMap
    /\ userProfiles # EmptyMap
    /\ cachedEvents # EmptyMap
    /\ cacheTimestamps # EmptyMap
    /\ DiskIsMemory

\* C22: a mutating call whose write to the files fails still completes,
\* its change is in the tables in memory, and the reads of the store
\* (which read the tables, never the files) return it
C22_FailedSaveKeepsMutation ==
    [][SaveFailed =>
         /\ MutationInMemory
         /\ \A u \in Users :
              /\ getTokenData(u)' = MapGet(tokenData', u)
              /\ getUserProfile(u)' = MapGet(userProfiles', u)
              /\ getCachedEvents(u)' = MapGet(cachedEvents', u)
              /\ getCacheTimestamp(u)' = MapGet(cacheTimestamps', u)]_vars

\* a token put none of whose writes went through: the record is read back
\* from memory while tokens.json does not exist
C22_Witness ==
    /\ last.op = "storeTokenData"
    /\ saveErrors > 0
    /\ disk.tokens = None
    /\ getTokenData(last.userId) = last.arg
    /\ ~DiskIsMemory

\* the step leaves every entry of user v in the four tables as it was
EntriesKept(v) ==
    /\ MapGet(tokenData', v) = MapGet(tokenData, v)
    /\ MapGet(userProfiles', v) = MapGet(userProfiles, v)
    /\ MapGet(cachedEvents', v) = MapGet(cachedEvents, v)
    /\ MapGet(cacheTimestamps', v) = MapGet(cacheTimestamps, v)

\* user v has an entry in each of the four tables
HasAllData(v) ==
    /\ v \in DOMAIN tokenData
    /\ v \in DOMAIN userProfiles
    /\ v \in DOMAIN cachedEvents
    /\ v \in DOMAIN cacheTimestamps

\* C23: after clearUserData(U) the store has no token record, profile,
\* cached events or timestamp of U, U is in neither the profile list nor
\* the list of user ids, getValidAccessToken(U) would return absent without
\* a request, and the data of every other user is as before
C23_LogoutRemovesOnlyThatUser ==
    [][last'.op = "clearUserData" =>
         \A u \in Users : u = last'.userId =>
             /\ getTokenData(u)' = None
             /\ getUserProfile(u)' = None
             /\ getCachedEvents(u)' = None
             /\ getCacheTimestamp(u)' = None
             /\ u \notin getAllUsers'
             /\ \A v \in DOMAIN userProfiles' : userProfiles'[v].id # u
             /\ ~needsFetch(u)'
             /\ getAccessTokenOrNull(u)' = None
             /\ \A v \in Users \ {u} : EntriesKept(v)]_vars

\* a logout while the other user has a token record, a profile and cached
\* events
C23_Witness ==
    /\ last.op = "clearUserData"
    /\ \E v \in Users \ {last.userId} : HasAllData(v)
    /\ ~HasAllData(last.userId)

\* C25: removeAccessToken(U) deletes the token record of U and nothing
\* else: afterwards the record is absent and isTokenExpired(U) is false,
\* while the profile and the cached events of U (so U stays in the list of
\* user ids) and all data of other users are as before
C25_RemoveDeletesOnlyTheTokenRecord ==
    [][last'.op = "removeAccessToken" =>
         \A u \in Users : u = last'.userId =>
             /\ getTokenData(u)' = None
             /\ ~isTokenExpired(u)'
             /\ userProfiles' = userProfiles
             /\ cachedEvents' = cachedEvents
             /\ cacheTimestamps' = cacheTimestamps
             /\ getAllUsers' = getAllUsers
             /\ \A v \in Users \ {u} : EntriesKept(v)]_vars

\* a token record removed for a user who keeps profile and cached events,
\* while the other user holds a token record
C25_Witness ==
    /\ last.op = "removeAccessToken"
    /\ last.userId \notin DOMAIN tokenData
    /\ last.userId \in getAllUsers
    /\ last.userId \in DOMAIN cachedEvents
    /\ \E v \in Users \ {last.userId} : v \in DOMAIN tokenData

\* C26: storeTokenData(U, record) is an upsert: the record read back for U
\* is exactly the one passed, and the token records of other users, all
\* profiles and all cached events are as before
C26_PutIsUpsert ==
    [][last'.op = "storeTokenData" =>
         \A u \in Users : u = last'.userId =>
             /\ getTokenData(u)' = last'.arg
             /\ userProfiles' = userProfiles
             /\ cachedEvents' = cachedEvents
             /\ cacheTimestamps' = cacheTimestamps
             /\ \A v \in Users \ {u} : EntriesKept(v)]_vars

\* a record without expiry put for a user while the other user has data in
\* all four tables
C26_Witness ==
    /\ last.op = "storeTokenData"
    /\ last.arg[1].expiresAt = None
    /\ getTokenData(last.userId) = last.arg
    /\ last.userId \in DOMAIN userProfiles
    /\ \E v \in Users \ {last.userId} : HasAllData(v)

----------------------------------------------------------------------------
(* Properties of logout against operations in flight *)

\* C24: a user without a token record (never signed in, or logged out
\* since) gets one only by a sign-in storing it; in particular a refresh
\* that was awaiting the identity provider when the user logged out stores
\* nothing when it completes. VIOLATED by the code: refreshToken stores the
\* record it built from the response whatever happened to the user
\* meanwhile.
C24_AsStated ==
    [][\A u \in Users :
          (u \notin DOMAIN tokenData /\ u \in DOMAIN tokenData')
              => (last'.op = "storeTokenData" /\ last'.userId = u)]_vars

----------------------------------------------------------------------------
(* Properties of sign-in, refresh and logout *)

\* C27: while a user has a profile, no step changes it: not a token
\* refresh, not event caching, not another sign-in of the same user.
\* VIOLATED by the code: every handleCallback stores the profile it has
\* just fetched over the one the store holds.
C27_AsStated ==
    [][\A u \in Users :
          (u \in DOMAIN userProfiles /\ u \in DOMAIN userProfiles')
              => userProfiles'[u] = userProfiles[u]]_vars

\* C27, what the code keeps: only a sign-in of the user writes the profile
\* and only the logout of the user removes it; a token refresh, with any
\* outcome, and event caching leave every profile as it is
C27_OnlySignInWritesProfile ==
    [][\A u \in Users :
          MapGet(userProfiles', u) # MapGet(userProfiles, u)
              => /\ last'.userId = u
                 /\ last'.op \in {"handleCallback", "clearUserData"}
                 /\ last'.op = "clearUserData"
                      <=> u \notin DOMAIN userProfiles']_vars

\* the token state of user u: an exchange with the identity provider is in
\* flight for u, or else what the store holds for u
TokenState(u) ==
    IF \E c \in env.slots :
           calls[c].pc = "awaitFetch" /\ calls[c].userId = u
    THEN "Refreshing"
    ELSE IF u \notin DOMAIN tokenData THEN "NoToken"
    ELSE IF isTokenExpired(u) THEN "Expired"
    ELSE "Valid"

\* the transitions the state diagram of the refresher names
DiagramTransitions ==
    {<<"NoToken", "Valid">>, <<"Valid", "Expired">>,
     <<"Expired", "Refreshing">>, <<"Refreshing", "Valid">>,
     <<"Refreshing", "NoToken">>}

\* an exchange is started for u: by getValidAccessToken, from Expired, with
\* a refresh token in the record
StartsFromExpired(u) ==
    TokenState(u)' = "Refreshing" =>
        /\ TokenState(u) = "Expired"
        /\ hasRefreshToken(getTokenData(u))
        /\ last'.op = "fetch" /\ last'.userId = u

\* C28 as stated: the token state of a user changes only along the five
\* transitions of the diagram, and an exchange starts only from Expired
\* with a refresh token. VIOLATED: a failed exchange leaves the record, so
\* the state goes from Refreshing back to Expired; logout leads from Valid
\* and from Expired to NoToken; a new sign-in leads from Expired to Valid.
C28_AsStated ==
    [][\A u \in Users :
          TokenState(u)' # TokenState(u) =>
              /\ <<TokenState(u), TokenState(u)'>> \in DiagramTransitions
              /\ StartsFromExpired(u)]_vars

\* C28, amended: the token state of a user changes only
\*   NoToken -> Valid and Expired -> Valid by a sign-in of the user,
\*   Valid -> Expired by the clock,
\*   Expired -> Refreshing by getValidAccessToken with a refresh token in
\*     the record,
\*   Refreshing -> Valid when the exchange settles and the record the store
\*     then holds has not expired,
\*   Refreshing -> Expired when the exchange fails and the expired record
\*     is still in the store,
\*   Refreshing -> NoToken when the exchange fails after the user logged
\*     out,
\*   Valid -> NoToken and Expired -> NoToken by the logout of the user
C28_TransitionsOfTheCode ==
    [][\A u \in Users :
          TokenState(u)' # TokenState(u) =>
            /\ StartsFromExpired(u)
            /\ \/ /\ TokenState(u) \in {"NoToken", "Expired"}
                  /\ TokenState(u)' = "Valid"
                  /\ last'.op = "handleCallback" /\ last'.userId = u
               \/ /\ TokenState(u) = "Valid"
                  /\ TokenState(u)' = "Expired"
                  /\ last'.op = "tick"
               \/ /\ TokenState(u) = "Expired"
                  /\ TokenState(u)' = "Refreshing"
               \/ /\ TokenState(u) = "Refreshing"
                  /\ TokenState(u)' = "Valid"
                  /\ last'.op = "refreshToken" /\ last'.userId = u
               \/ /\ TokenState(u) = "Refreshing"
                  /\ TokenState(u)' = "Expired"
                  /\ last'.op = "refreshToken" /\ last'.userId = u
                  /\ last'.ret = None
                  /\ getTokenData(u)' = getTokenData(u)
               \/ /\ TokenState(u) = "Refreshing"
                  /\ TokenState(u)' = "NoToken"
                  /\ last'.op = "refreshToken" /\ last'.userId = u
                  /\ last'.ret = None
                  /\ u \notin DOMAIN tokenData
               \/ /\ TokenState(u) \in {"Valid", "Expired"}
                  /\ TokenState(u)' = "NoToken"
                  /\ last'.op = "clearUserData" /\ last'.userId = u]_vars

\* a failed exchange has just left the expired record of a signed-in user
\* in the store
C28_Witness ==
    /\ last.op = "refreshToken"
    /\ last.ret = None
    /\ TokenState(last.userId) = "Expired"
    /\ getTokenData(last.userId) = last.arg
    /\ last.userId \in DOMAIN userProfiles

----------------------------------------------------------------------------
(* Properties of the manual refresh route *)

\* C29: when the refresh a client asked for fails (no valid token, or the
\* event request fails), the answer of POST /api/refresh has an error
\* status. VIOLATED by the code: refreshCalendarData swallows the failure
\* and the route answers 200 with whatever getCachedData returns.
C29_AsStated ==
    [][FailedRefresh("manual") => last'.ret[1].status # 200]_vars

----------------------------------------------------------------------------
(* Properties of the token file of the server *)

\* invocation inv of refreshCalendarData starts with this step, at time now'
Starts(inv) ==
    /\ runs[inv].pc = "idle"
    /\ last'.op = "refreshCalendarData"
    /\ last'.userId = inv

\* more than five minutes remain before the stored expiresOn at time t
MoreThanBufferLeft(t) ==
    /\ tokenFile # None
    /\ tokenFile[1].expiresOn # None
    /\ tokenFile[1].expiresOn[1] - t > BufferTimeMs

\* tokens.json holds a refresh token and an account
RefreshTokenAndAccountStored ==
    /\ tokenFile # None
    /\ TruthyStr(tokenFile[1].refreshToken)
    /\ TruthyStr(tokenFile[1].account)

\* C31: getValidAccessToken of the server hands the stored token to its
\* caller without a call to the identity provider exactly when more than
\* five minutes remain before expiresOn; otherwise it calls
\* acquireTokenSilent exactly when a refresh token and an account are
\* stored (and the server is configured), and else returns null with
\* tokens.json unchanged. When the call succeeds, tokens.json holds the
\* response and the caller goes on with the new token; when it fails, the
\* caller gets null and tokens.json is unchanged.
C31_ServerTokenPath ==
    [][\A inv \in RunIds :
        /\ Starts(inv) =>
             /\ tokenFile' = tokenFile
             /\ (runs'[inv].pc = "awaitEvents" /\ runs'[inv].tokenCalls = 0)
                  <=> MoreThanBufferLeft(now')
             /\ (runs'[inv].pc = "awaitToken" /\ runs'[inv].tokenCalls = 1)
                  <=> (/\ ~MoreThanBufferLeft(now')
                       /\ RefreshTokenAndAccountStored
                       /\ env.clientId)
             /\ runs'[inv].pc \in {"idle", "awaitEvents", "awaitToken"}
        /\ (runs[inv].pc = "awaitToken" /\ runs'[inv] # runs[inv]) =>
             \/ /\ runs'[inv].pc = "awaitEvents"
                /\ runs'[inv].tokenCalls = 1
                /\ tokenFile' # None
                /\ tokenFile'[1] \in TokenResponses
             \/ /\ runs'[inv].pc = "idle"
                /\ tokenFile' = tokenFile
             \/ runs'[inv].pc = "hung"]_vars

\* a refresh whose acquireTokenSilent succeeded: the invocation is at its
\* event request with the response saved in tokens.json
C31_Witness ==
    \E inv \in RunIds :
        /\ last.op = "refreshCalendarData"
        /\ last.userId = inv
        /\ runs[inv].pc = "awaitEvents"
        /\ runs[inv].tokenCalls = 1
        /\ tokenFile # None

----------------------------------------------------------------------------
(* Properties of handleCallback *)

\* the code exchange of the step failed: no 2xx answer, or no access_token
ExchangeRejected ==
    last'.resp.status # "ok" \/ ~TruthyStr(last'.resp.access_token)

\* a handleCallback step that ends in the redirect to /?error=auth_failed
\* writes nothing; one that ends in the login redirect leaves a token
\* record and a profile for the user id it returns
CallbackAllOrNothing ==
    /\ ExchangeRejected => last'.ret = Some("auth_failed")
    /\ last'.ret = Some("auth_failed") =>
          UNCHANGED <<tokenData, userProfiles, cachedEvents,
                      cacheTimestamps, disk>>
    /\ last'.ret = Some("loginSuccess") =>
          \A u \in Users : u = last'.userId =>
              /\ u \in DOMAIN tokenData'
              /\ u \in DOMAIN userProfiles'
              /\ userProfiles'[u].id = u
              /\ tokenData'[u].accessToken = last'.resp.access_token[1]

\* C32 as stated: handleCallback writes nothing when the exchange or the
\* profile fetch fails, and on success token record and profile exist,
\* with expiresAt = now + expires_in * 1000 when expires_in is given and
\* absent otherwise. VIOLATED for expires_in = 0, which is given and
\* leaves the record without expiresAt.
C32_AsStated ==
    [][last'.op = "handleCallback" =>
         /\ CallbackAllOrNothing
         /\ last'.ret = Some("loginSuccess") =>
               \A u \in Users : u = last'.userId =>
                   tokenData'[u].expiresAt =
                       IF last'.resp.expires_in # None
                       THEN Some(now + last'.resp.expires_in[1] * MsPerSecond)
                       ELSE None]_vars

\* C32, amended: as above, with expiresAt = now + expires_in * 1000 when
\* expires_in is given and not 0, and absent otherwise
C32_AllOrNothingNonZeroExpiry ==
    [][last'.op = "handleCallback" =>
         /\ CallbackAllOrNothing
         /\ last'.ret = Some("loginSuccess") =>
               \A u \in Users : u = last'.userId =>
                   tokenData'[u].expiresAt =
                       IF TruthyNum(last'.resp.expires_in)
                       THEN Some(now + last'.resp.expires_in[1] * MsPerSecond)
                       ELSE None]_vars

\* a sign-in that failed at the profile fetch, after the exchange had
\* delivered a token, while the store holds the data of an earlier sign-in
C32_Witness ==
    /\ last.op = "handleCallback"
    /\ last.ret = Some("auth_failed")
    /\ last.resp.status = "ok"
    /\ TruthyStr(last.resp.access_token)
    /\ tokenData # EmptyMap
    /\ \A u \in DOMAIN tokenData :
         u \in DOMAIN userProfiles /\ tokenData[u].expiresAt # None

----------------------------------------------------------------------------
(* Properties of GET /api/calendar *)

\* what GET /api/calendar answers in the current state
ServedData == getCachedData(cacheFile, nextUpdateTime)

\* C33: with calendar data cached, once a background refresh has completed
\* and the timer of the following one is armed, the nextUpdate served by
\* GET /api/calendar is the time that timer is due, and it is not before
\* the served lastUpdated. VIOLATED by the code: the served nextUpdate is
\* the value refreshCalendarData wrote into data_cache.json, which is the
\* time the refresh that wrote it had itself been scheduled for.
C33_AsStated ==
    (/\ cacheFile # None
     /\ timer # None
     /\ ~timer[1].first
     /\ BackgroundInProgress = {})
        => /\ ServedData.nextUpdate = timer[1].due
           /\ ServedData.nextUpdate >= ServedData.lastUpdated[1]

----------------------------------------------------------------------------
(* Properties of the event tables *)

\* C34: from an empty store on, after any sequence of store calls (and
\* restarts over the files), the users with a cached event list are the
\* users with a fetch time: getCachedEvents(u) is present exactly when
\* getCacheTimestamp(u) is
C34_EventsIffTimestamp ==
    /\ DOMAIN cachedEvents = DOMAIN cacheTimestamps
    /\ \A u \in Users :
         (getCachedEvents(u) # None) <=> (getCacheTimestamp(u) # None)

\* one user logged out while the events of the other stay cached
C34_Witness ==
    /\ last.op = "clearUserData"
    /\ last.userId \notin DOMAIN cachedEvents
    /\ last.userId \notin DOMAIN cacheTimestamps
    /\ \E v \in Users \ {last.userId} :
         v \in DOMAIN cachedEvents /\ v \in DOMAIN cacheTimestamps

----------------------------------------------------------------------------
(* Properties of overlapping refreshes of one user *)

\* the refreshToken call that returns with this step overlapped another
\* one for the same user u: the other is still awaiting its fetch, or it
\* has already stored a record over the one this call had read
OverlappedReturn(u) ==
    /\ last'.op = "refreshToken"
    /\ last'.userId = u
    /\ \/ \E c, d \in env.slots :
             /\ c # d
             /\ calls[c].pc = "awaitFetch" /\ calls[c].userId = u
             /\ calls[d].pc = "awaitFetch" /\ calls[d].userId = u
       \/ getTokenData(u) # last'.arg

\* C35: when two getValidAccessToken calls for the same expired user
\* overlap, each successful exchange stores a record all of whose fields
\* come from that exchange (its response, and for a missing refresh_token
\* the refresh token that call had read), and a failed exchange leaves the
\* record in the store, the one the other call has stored included, as it
\* is; so the record left in the end is that of one successful exchange
C35_OverlappingRefreshesOfOneUser ==
    [][\A u \in Users :
         OverlappedReturn(u) =>
             /\ last'.ret # None =>
                  /\ u \in DOMAIN tokenData'
                  /\ tokenData'[u].accessToken = last'.resp.access_token[1]
                  /\ tokenData'[u].accessToken = last'.ret[1]
                  /\ tokenData'[u].refreshToken =
                        IF TruthyStr(last'.resp.refresh_token)
                        THEN last'.resp.refresh_token
                        ELSE last'.arg[1].refreshToken
                  /\ tokenData'[u].expiresAt =
                        IF TruthyNum(last'.resp.expires_in)
                        THEN Some(now + last'.resp.expires_in[1] * MsPerSecond)
                        ELSE None
                  /\ tokenData'[u].tokenType =
                        IF TruthyStr(last'.resp.token_type)
                        THEN last'.resp.token_type
                        ELSE Some("Bearer")
             /\ last'.ret = None => tokenData' = tokenData]_vars

\* of two overlapping refreshes of one user the first has stored its new
\* record and the second has then failed: the new record is in the store
C35_Witness ==
    /\ last.op = "refreshToken"
    /\ last.ret = None
    /\ last.userId \in DOMAIN tokenData
    /\ getTokenData(last.userId) # last.arg
    /\ tokenData[last.userId].accessToken = "A2"
    /\ \A c \in env.slots : calls[c].pc = "idle"

----------------------------------------------------------------------------
(* The browser client: public/app.js, class CalendarApp *)

RefreshBaseMs == 50000

RefreshSpreadMs == 20000

\* 50000 + Math.random() * 20000
RandomIntervals ==
    {RefreshBaseMs + (k * RefreshSpreadMs) \div RandomSteps :
        k \in 0 .. RandomSteps - 1}

\* the events the server holds for a user; each is marked with the calendar
\* it was read from
ServerEvents(userId) == <<[subject |-> "e1", calendar |-> userId]>>

\* the outcomes of GET /api/events?userId=...: the fetch rejects, the
\* status is not 2xx (400, 401, 500), or the body carries the events
EventsResponses(userId) ==
    [status : {"throw", "non2xx"}, events : {<<>>}]
        \cup [status : {"ok"}, events : {<<>>, ServerEvents(userId)}]

\* the outcomes of GET /api/users
UsersResponses ==
    [status : {"throw"}, users : {<<>>}]
        \cup [status : {"ok"},
              users : {<<>>, <<"u1">>, <<"u2">>, <<"u1", "u2">>}]

\* the outcomes of GET /api/logout?userId=...: fetch resolves for every
\* HTTP status and rejects on a network error
LogoutResponses == [status : {"throw", "ok"}]

SeqRange(s) == {s[i] : i \in DOMAIN s}

FreeSlots(b) == {r \in RequestSlots : b.pending[r] = NoRequest}

\* fetch(...): the request is in flight until its promise settles
fetch(b, request) ==
    [b EXCEPT !.pending[CHOOSE r \in FreeSlots(b) : TRUE] = request]

settled(b, r) == [b EXCEPT !.pending[r] = NoRequest]

\* loadEvents up to its first await: the URL carries the user that is
\* current now
loadEvents(b) ==
    IF b.app.currentUserId = None
    THEN b
    ELSE fetch(b, [kind |-> "events", userId |-> b.app.currentUserId[1]])

\* CalendarApp.cacheEvents: the key is the user that is current when it runs
localCacheEvents(b) ==
    IF b.app.currentUserId # None
    THEN [b EXCEPT !.localStorage.events[b.app.currentUserId[1]] =
                      Some([events |-> b.app.events, timestamp |-> now])]
    ELSE b

loadCachedEvents(b) ==
    IF /\ b.app.currentUserId # None
       /\ b.localStorage.events[b.app.currentUserId[1]] # None
    THEN [b EXCEPT !.app.events =
                      b.localStorage.events[b.app.currentUserId[1]][1].events]
    ELSE b

\* loadEvents from the point where its fetch has settled
loadEventsResume(b, resp) ==
    IF resp.status = "ok"
    THEN localCacheEvents([b EXCEPT !.app.events = resp.events])
    ELSE loadCachedEvents(b)

clearRefreshInterval(b) == [b EXCEPT !.app.refreshCountdown = None]

\* the interval that counts down to nextRefreshTime = Date.now() +
\* randomInterval
startRefreshCountdown(b, randomInterval) ==
    [clearRefreshInterval(b) EXCEPT
        !.app.refreshCountdown = Some(randomInterval)]

\* this.currentUserId = userId; localStorage.setItem('currentUserId', userId)
selectUser(b, userId) ==
    [b EXCEPT !.app.currentUserId = Some(userId),
              !.localStorage.currentUserId = Some(userId)]

switchUser(b, userId) == loadEvents(selectUser(b, userId))

\* loadUsers from the point where its fetch has settled
loadUsersResume(b, resp) ==
    IF resp.status # "ok"
    THEN b
    ELSE LET b1 == [b EXCEPT !.app.users = resp.users]
         IN  IF resp.users = <<>>
             THEN b1
             ELSE IF /\ b.app.currentUserId # None
                     /\ b.app.currentUserId[1] \in SeqRange(resp.users)
                  THEN loadEvents(b1)
                  ELSE loadEvents(selectUser(b1, resp.users[1]))

\* logout from the point where its fetch has settled: it removes the user
\* that is current now
logoutResume(b, resp) ==
    IF resp.status # "ok"
    THEN b
    ELSE LET remaining ==
                 SelectSeq(b.app.users,
                           LAMBDA u : Some(u) # b.app.currentUserId)
             b1 == clearRefreshInterval(
                       [b EXCEPT !.app.users = remaining,
                                 !.localStorage.currentUserId = None,
                                 !.app.currentUserId = None,
                                 !.app.events = <<>>])
         IN  IF remaining = <<>>
             THEN b1
             ELSE loadEvents(selectUser(b1, remaining[1]))

\* removeAccount(userId) from the point where its fetch has settled
removeAccountResume(b, userId, resp) ==
    IF resp.status # "ok"
    THEN b
    ELSE LET remaining == SelectSeq(b.app.users, LAMBDA u : u # userId)
             b1 == [b EXCEPT !.app.users = remaining]
         IN  IF Some(userId) # b.app.currentUserId
             THEN b1
             ELSE LET b2 == clearRefreshInterval(
                                [b1 EXCEPT !.localStorage.currentUserId = None,
                                           !.app.currentUserId = None])
                  IN  IF remaining = <<>>
                      THEN b2
                      ELSE loadEvents(selectUser(b2, remaining[1]))

daemonVars == <<now, ticks, env, storeVars, calls, serverVars, stores, cycle>>

\* the step has sent a GET /api/events
EventsRequested(b, b2) ==
    \E r \in RequestSlots :
        b2.pending[r].kind = "events" /\ b2.pending[r] # b.pending[r]

\* a step of the page: last.ret tells whether it has sent a GET /api/events
ClientStep(op, userId, resp, b2) ==
    /\ browser' = b2
    /\ last' = Op(op, userId, None,
                  IF EventsRequested(browser, b2) THEN Some("/api/events")
                  ELSE None,
                  resp)
    /\ UNCHANGED daemonVars

\* the page as init() leaves it: currentUserId read from the URL or from
\* localStorage, GET /api/users in flight, the countdown started
OpenedPage(stored, randomInterval, online) ==
    [app |-> [currentUserId |-> stored, users |-> <<>>, events |-> <<>>,
              refreshCountdown |-> Some(randomInterval), isOnline |-> online],
     localStorage |-> [currentUserId |-> stored, users |-> None,
                       events |-> [u \in Users |-> None]],
     pending |-> [r \in RequestSlots |->
                    IF r = "r1" THEN [kind |-> "users", userId |-> ""]
                    ELSE NoRequest]]

InitClient ==
    /\ now = MsPerSecond
    /\ ticks = 0
    /\ env = [faultyDisk |-> FALSE, clientId |-> TRUE, slots |-> {"c1"}]
    /\ tokenData = EmptyMap
    /\ userProfiles = EmptyMap
    /\ cachedEvents = EmptyMap
    /\ cacheTimestamps = EmptyMap
    /\ disk = [tokens |-> None, users |-> None, events |-> None]
    /\ saveErrors = 0
    /\ calls = [c \in CallIds |-> Idle]
    /\ last = Op("init", "", None, None, NoResponse)
    /\ tokenFile = None
    /\ cacheFile = None
    /\ nextUpdateTime = now
    /\ timer = None
    /\ runs = [i \in RunIds |-> IdleRun]
    /\ cycles = 0
    /\ stores = EmptyMap
    /\ cycle = NoCycle
    /\ \E stored \in {None} \cup {Some(u) : u \in Users},
          randomInterval \in RandomIntervals :
           browser = OpenedPage(stored, randomInterval, TRUE)

LoadUsersResume ==
    \E r \in RequestSlots, resp \in UsersResponses :
        /\ browser.pending[r].kind = "users"
        /\ ClientStep("loadUsers", "", resp,
                      loadUsersResume(settled(browser, r), resp))

\* a click on a user badge, or Alt+number
SwitchUser ==
    \E userId \in SeqRange(browser.app.users) :
        /\ Some(userId) # browser.app.currentUserId
        /\ FreeSlots(browser) # {}
        /\ ClientStep("switchUser", userId, NoResponse,
                      switchUser(browser, userId))

\* a click on a refresh button
RefreshEvents ==
    /\ browser.app.currentUserId # None
    /\ FreeSlots(browser) # {}
    /\ ClientStep("refreshEvents", browser.app.currentUserId[1], NoResponse,
                  loadEvents(browser))

LoadEventsResume ==
    \E r \in RequestSlots :
        /\ browser.pending[r].kind = "events"
        /\ \E resp \in EventsResponses(browser.pending[r].userId) :
               ClientStep("loadEvents", browser.pending[r].userId, resp,
                          loadEventsResume(settled(browser, r), resp))

\* the interval callback that finds the countdown at 0
CountdownExpires ==
    /\ browser.app.refreshCountdown # None
    /\ FreeSlots(browser) # {}
    /\ \E randomInterval \in RandomIntervals :
           ClientStep("countdown", "", NoResponse,
                      startRefreshCountdown(loadEvents(browser),
                                            randomInterval))

\* a click on the logout button
Logout ==
    /\ browser.app.currentUserId # None
    /\ FreeSlots(browser) # {}
    /\ ClientStep("logout", browser.app.currentUserId[1], NoResponse,
                  fetch(browser, [kind |-> "logout",
                                  userId |-> browser.app.currentUserId[1]]))

LogoutResume ==
    \E r \in RequestSlots, resp \in LogoutResponses :
        /\ browser.pending[r].kind = "logout"
        /\ ClientStep("logoutDone", browser.pending[r].userId, resp,
                      logoutResume(settled(browser, r), resp))

\* a click on the trash button of an account in the settings dialog
RemoveAccount ==
    \E userId \in SeqRange(browser.app.users) :
        /\ FreeSlots(browser) # {}
        /\ ClientStep("removeAccount", userId, NoResponse,
                      fetch(browser, [kind |-> "removeAccount",
                                      userId |-> userId]))

RemoveAccountResume ==
    \E r \in RequestSlots, resp \in LogoutResponses :
        /\ browser.pending[r].kind = "removeAccount"
        /\ ClientStep("removeAccountDone", browser.pending[r].userId, resp,
                      removeAccountResume(settled(browser, r),
                                          browser.pending[r].userId, resp))

(* The page with its user switching and its countdown *)

NextClient ==
    \/ LoadUsersResume
    \/ SwitchUser
    \/ RefreshEvents
    \/ LoadEventsResume
    \/ CountdownExpires

SpecClient == InitClient /\ [][NextClient]_vars

(* The page with its accounts being signed out *)

NextAccounts ==
    \/ LoadUsersResume
    \/ LoadEventsResume
    \/ CountdownExpires
    \/ Logout
    \/ LogoutResume
    \/ RemoveAccount
    \/ RemoveAccountResume

SpecAccounts == InitClient /\ [][NextAccounts]_vars

----------------------------------------------------------------------------
(* The offline-aware revision of the browser client: unnamed/part_002.   *)
(* Its definitions carry the suffix 2 where public/app.js has one of the *)
(* same name; cacheEvents, loadCachedEvents and clearRefreshInterval are *)
(* the same in both                                                       *)

\* the outcomes of the GET /api/users of checkNetworkConnectivity
ConnectivityResponses == [status : {"throw", "non2xx", "ok"}]

cacheUsers(b) ==
    IF b.app.users # <<>>
    THEN [b EXCEPT !.localStorage.users =
                      Some([users |-> b.app.users, timestamp |-> now])]
    ELSE b

loadCachedUsers(b) ==
    IF b.localStorage.users = None
    THEN b
    ELSE LET b1 == [b EXCEPT !.app.users = b.localStorage.users[1].users]
         IN  IF b1.app.users = <<>>
             THEN b1
             ELSE IF /\ b1.app.currentUserId # None
                     /\ b1.app.currentUserId[1] \in SeqRange(b1.app.users)
                  THEN loadCachedEvents(b1)
                  ELSE loadCachedEvents(selectUser(b1, b1.app.users[1]))

setConnectionStatus(b, online) ==
    LET b1 == [b EXCEPT !.app.isOnline = online]
    IN  IF ~online /\ b1.app.users = <<>> THEN loadCachedUsers(b1) ELSE b1

\* loadEvents up to its first await: no request is sent while isOnline is
\* false
loadEvents2(b) ==
    IF b.app.currentUserId = None
    THEN b
    ELSE IF ~b.app.isOnline
         THEN loadCachedEvents(b)
         ELSE fetch(b, [kind |-> "events",
                        userId |-> b.app.currentUserId[1]])

\* loadEvents from the point where its fetch has settled, up to its
\* return or to the await of checkNetworkConnectivity in its catch
loadEventsResume2(b, r, resp) ==
    IF resp.status = "ok"
    THEN localCacheEvents([setConnectionStatus(settled(b, r), TRUE) EXCEPT
                              !.app.events = resp.events])
    ELSE [b EXCEPT !.pending[r] = [kind |-> "connectivity",
                                   userId |-> b.pending[r].userId]]

\* the catch of loadEvents from the point where checkNetworkConnectivity
\* has returned: isOnline is false at its end whatever the check has found
loadEventsCatch(b, isConnected) ==
    LET b1 == IF ~isConnected THEN setConnectionStatus(b, FALSE) ELSE b
    IN  setConnectionStatus(loadCachedEvents(b1), FALSE)

startRefreshCountdown2(b, randomInterval) ==
    IF ~b.app.isOnline
    THEN clearRefreshInterval(b)
    ELSE startRefreshCountdown(b, randomInterval)

\* loadUsers up to its await
loadUsers2(b) ==
    fetch(loadCachedUsers(b), [kind |-> "users", userId |-> ""])

\* loadUsers from the point where its fetch has settled
loadUsersResume2(b, resp) ==
    IF resp.status # "ok"
    THEN setConnectionStatus(b, FALSE)
    ELSE LET b1 == cacheUsers([b EXCEPT !.app.users = resp.users])
         IN  IF resp.users = <<>>
             THEN b1
             ELSE IF /\ b.app.currentUserId # None
                     /\ b.app.currentUserId[1] \in SeqRange(resp.users)
                  THEN loadEvents2(b1)
                  ELSE loadEvents2(selectUser(b1, resp.users[1]))

\* the page as init() leaves it; navigator.onLine is either value
OpenedPage2(stored, randomInterval, online) ==
    startRefreshCountdown2(
        clearRefreshInterval(OpenedPage(stored, randomInterval, online)),
        randomInterval)

InitOffline ==
    /\ now = MsPerSecond
    /\ ticks = 0
    /\ env = [faultyDisk |-> FALSE, clientId |-> TRUE, slots |-> {"c1"}]
    /\ tokenData = EmptyMap
    /\ userProfiles = EmptyMap
    /\ cachedEvents = EmptyMap
    /\ cacheTimestamps = EmptyMap
    /\ disk = [tokens |-> None, users |-> None, events |-> None]
    /\ saveErrors = 0
    /\ calls = [c \in CallIds |-> Idle]
    /\ last = Op("init", "", None, None, NoResponse)
    /\ tokenFile = None
    /\ cacheFile = None
    /\ nextUpdateTime = now
    /\ timer = None
    /\ runs = [i \in RunIds |-> IdleRun]
    /\ cycles = 0
    /\ stores = EmptyMap
    /\ cycle = NoCycle
    /\ \E stored \in {None} \cup {Some(u) : u \in Users},
          randomInterval \in RandomIntervals, online \in BOOLEAN :
           browser = OpenedPage2(stored, randomInterval, online)

LoadUsersResume2 ==
    \E r \in RequestSlots, resp \in UsersResponses :
        /\ browser.pending[r].kind = "users"
        /\ ClientStep("loadUsers", "", resp,
                      loadUsersResume2(settled(browser, r), resp))

SwitchUser2 ==
    \E userId \in SeqRange(browser.app.users) :
        /\ Some(userId) # browser.app.currentUserId
        /\ FreeSlots(browser) # {}
        /\ ClientStep("switchUser", userId, NoResponse,
                      loadEvents2(selectUser(browser, userId)))

\* a click on a refresh button: refused while isOnline is false
RefreshEvents2 ==
    /\ browser.app.currentUserId # None
    /\ FreeSlots(browser) # {}
    /\ ClientStep("refreshEvents", browser.app.currentUserId[1], NoResponse,
                  IF ~browser.app.isOnline THEN loadCachedEvents(browser)
                  ELSE loadEvents2(browser))

LoadEventsResume2 ==
    \E r \in RequestSlots :
        /\ browser.pending[r].kind = "events"
        /\ \E resp \in EventsResponses(browser.pending[r].userId) :
               ClientStep("loadEvents", browser.pending[r].userId, resp,
                          loadEventsResume2(browser, r, resp))

LoadEventsCatch ==
    \E r \in RequestSlots, resp \in ConnectivityResponses :
        /\ browser.pending[r].kind = "connectivity"
        /\ ClientStep("loadEventsCatch", browser.pending[r].userId, resp,
                      loadEventsCatch(settled(browser, r),
                                      resp.status = "ok"))

\* the interval callback that finds the countdown at 0
CountdownExpires2 ==
    /\ browser.app.refreshCountdown # None
    /\ FreeSlots(browser) # {}
    /\ \E randomInterval \in RandomIntervals :
           ClientStep("countdown", "", NoResponse,
                      startRefreshCountdown2(loadEvents2(browser),
                                             randomInterval))

\* the browser's 'online' event
BrowserOnline ==
    /\ FreeSlots(browser) = RequestSlots
    /\ \E randomInterval \in RandomIntervals :
           ClientStep("online", "", NoResponse,
               LET b1 == setConnectionStatus(browser, TRUE)
                   b2 == IF b1.app.currentUserId # None
                         THEN loadEvents2(loadUsers2(b1))
                         ELSE b1
               IN  startRefreshCountdown2(b2, randomInterval))

\* the browser's 'offline' event
BrowserOffline ==
    /\ browser' = setConnectionStatus(browser, FALSE)
    /\ last' = Op("offline", "", None, None, NoResponse)
    /\ UNCHANGED daemonVars

NextOffline ==
    \/ LoadUsersResume2
    \/ SwitchUser2
    \/ RefreshEvents2
    \/ LoadEventsResume2
    \/ LoadEventsCatch
    \/ CountdownExpires2
    \/ BrowserOnline
    \/ BrowserOffline

SpecOffline == InitOffline /\ [][NextOffline]_vars

\* the event loop runs every timer callback that is due and every
\* continuation whose request has settled, and every request settles; the
\* clicks and the browser's online and offline events may never come
SpecOfflineLive ==
    /\ SpecOffline
    /\ WF_vars(LoadUsersResume2)
    /\ WF_vars(LoadEventsResume2)
    /\ WF_vars(LoadEventsCatch)
    /\ WF_vars(CountdownExpires2)

----------------------------------------------------------------------------
(* Properties of the browser client *)

\* every event cached under events_<u> was read from the calendar of u
CachedForItsUser ==
    \A u \in Users :
        browser.localStorage.events[u] # None =>
            \A i \in DOMAIN browser.localStorage.events[u][1].events :
                browser.localStorage.events[u][1].events[i].calendar = u

\* a GET /api/events for another user than the current one returns with
\* this step
StaleResponse ==
    /\ last'.op = "loadEvents"
    /\ last'.resp.status = "ok"
    /\ browser'.app.currentUserId # None
    /\ browser'.app.currentUserId # Some(last'.userId)

\* C36: the events cached under events_<U> were fetched for user U, and
\* the response to a request sent for a user A that returns after the
\* current user has become B neither replaces the events shown nor is
\* written to localStorage
C36_AsStated ==
    /\ []CachedForItsUser
    /\ [][StaleResponse =>
            /\ browser'.app.events = browser.app.events
            /\ browser'.localStorage = browser.localStorage]_vars

\* C37: whenever a user is selected, the countdown to the next reload is
\* running and was drawn from 50 s to 70 s, also after a logout or a
\* removal that has selected a remaining account
C37_AsStated ==
    browser.app.currentUserId # None =>
        /\ browser.app.refreshCountdown # None
        /\ browser.app.refreshCountdown[1] >= RefreshBaseMs
        /\ browser.app.refreshCountdown[1] <= RefreshBaseMs + RefreshSpreadMs

\* a GET /api/events of the page got an answer from the server that is not
\* 2xx (401, 500), and the catch of loadEvents found the server reachable
FailedWhileReachable ==
    /\ last.op = "loadEventsCatch"
    /\ last.resp.status = "ok"

\* C38: after a GET /api/events that failed while the server is reachable,
\* the offline-aware page eventually sends another GET /api/events, with
\* no click, no 'online' event and no reload needed for it
C38_AsStated ==
    FailedWhileReachable ~> (last.ret = Some("/api/events"))

=============================================================================
